---- MODULE Spec2Model ----
(***************************************************************************)
(* RigBooks: transaction classification and tax aggregation.               *)
(*                                                                         *)
(* The model covers the Streamlit session of app.py (the uploaded bank     *)
(* statement, its classification, the manual category overrides and the    *)
(* figures the pages derive from them) and the helper library that         *)
(* app_BACKUP.py drives (TransactionClassifier, calculate_revenue,         *)
(* GSTCalculator, the accountant export).                                  *)
(*                                                                         *)
(* Money.  debit and credit are whole cents.  The floating-point products  *)
(* of the code are modelled as exact rationals: a derived amount is an     *)
(* integer number of Units, 420 Units to the cent, so that x * 0.05,       *)
(* x * 0.05 / 1.05 and x * 0.5 * 0.05 / 1.05 are all exact.  Rates are     *)
(* whole percents (1.0 is 100, 0.5 is 50).                                 *)
(*                                                                         *)
(* Text.  Descriptions and keywords are strings; str.upper(), the `in`     *)
(* test and re.search are computed character by character.                 *)
(***************************************************************************)
EXTENDS Integers, Sequences, FiniteSets, TLC

VARIABLES
    corporate_df,   \* st.session_state.corporate_df: the parsed statement
    classified_df,  \* st.session_state.classified_df: its classified rows
    view,           \* what the last script run computed from the session
    cash_expenses,      \* st.session_state.cash_expenses
    personal_expenses,  \* st.session_state.personal_expenses
    tracker,            \* st.session_state.shareholder_tracker
    dividends           \* DividendTracker.dividends

vars == <<corporate_df, classified_df, view, cash_expenses, personal_expenses, tracker,
          dividends>>

\* the side-channel lists and the shareholder tracker, which the bank
\* statement handlers leave alone
others == <<cash_expenses, personal_expenses, tracker, dividends>>

\* session_state holds None until a statement is uploaded; load_cibc_csv's
\* empty result is refused by the upload handler, so a stored dataframe is
\* never empty and the empty sequence stands for None.
None == <<>>

NoView == [op |-> "none"]

(***************************************************************************)
(* Arithmetic                                                              *)
(***************************************************************************)
GST_RATE_PCT == 5

Unit == 4 * (100 + GST_RATE_PCT)

\* amount (cents) as Units
Amount(cents) == cents * Unit

\* The three products divide before they multiply, to stay within TLC's
\* 32-bit integers.  Each is exact where it is used: on an amount of whole
\* cents (a multiple of 420 Units) or on the GST portion of one (a multiple
\* of 20 Units).

\* x * pct, pct a rate in percent (a multiple of 5)
TimesPct(x, pct) == (x \div 20) * (pct \div 5)

\* x * (GST_RATE / (1 + GST_RATE)), also written x * 0.05 / 1.05: x / 21
GstInPurchase(x) == x \div ((100 + GST_RATE_PCT) \div GST_RATE_PCT)

\* x * 0.05: x / 20
FivePercent(x) == x \div (100 \div GST_RATE_PCT)

\* Python round(x, 2): to the nearest cent, a tie to the even cent
round2(x) ==
    LET q == x \div Unit
        r == x % Unit
    IN  IF 2 * r < Unit THEN q * Unit
        ELSE IF 2 * r > Unit THEN (q + 1) * Unit
        ELSE IF q % 2 = 0 THEN q * Unit ELSE (q + 1) * Unit

RECURSIVE SeqSum(_)
SeqSum(s) == IF s = <<>> THEN 0 ELSE Head(s) + SeqSum(Tail(s))

\* df[mask]: the rows of df whose position is in mask, in order
RECURSIVE Select(_, _, _)
Select(df, mask, i) ==
    IF i > Len(df) THEN <<>>
    ELSE (IF i \in mask THEN <<df[i]>> ELSE <<>>) \o Select(df, mask, i + 1)

Column(df, col) == [i \in 1..Len(df) |-> df[i][col]]

(***************************************************************************)
(* Text                                                                    *)
(***************************************************************************)
UpperChar(c) ==
    CASE c = "a" -> "A" [] c = "b" -> "B" [] c = "c" -> "C" [] c = "d" -> "D"
      [] c = "e" -> "E" [] c = "f" -> "F" [] c = "g" -> "G" [] c = "h" -> "H"
      [] c = "i" -> "I" [] c = "j" -> "J" [] c = "k" -> "K" [] c = "l" -> "L"
      [] c = "m" -> "M" [] c = "n" -> "N" [] c = "o" -> "O" [] c = "p" -> "P"
      [] c = "q" -> "Q" [] c = "r" -> "R" [] c = "s" -> "S" [] c = "t" -> "T"
      [] c = "u" -> "U" [] c = "v" -> "V" [] c = "w" -> "W" [] c = "x" -> "X"
      [] c = "y" -> "Y" [] c = "z" -> "Z" [] OTHER -> c

\* str.upper()
RECURSIVE upper(_)
upper(s) ==
    IF Len(s) = 0 THEN s
    ELSE UpperChar(SubSeq(s, 1, 1)) \o upper(SubSeq(s, 2, Len(s)))

\* sub occurs in s starting at position i
OccursAt(s, sub, i) ==
    /\ i >= 1
    /\ i + Len(sub) - 1 <= Len(s)
    /\ SubSeq(s, i, i + Len(sub) - 1) = sub

\* Python `sub in s`
Contains(s, sub) == \E i \in 1..Len(s) : OccursAt(s, sub, i)

\* str.contains(pat, case=False) for a literal pat
ContainsNoCase(s, sub) == Contains(upper(s), upper(sub))

\* One alternative of a pattern is its literals in order, `.*` between them:
\* the first literal occurs at or after `from`, the rest after its end.
RECURSIVE AltSearch(_, _, _)
AltSearch(alt, s, from) ==
    IF alt = <<>> THEN TRUE
    ELSE \E i \in from..Len(s) :
            /\ OccursAt(s, upper(Head(alt)), i)
            /\ AltSearch(Tail(alt), s, i + Len(Head(alt)))

\* re.search(pattern, s, re.IGNORECASE) for s already uppercase.  A pattern is
\* its `|` alternatives; `FGP\d+` is written as the ten alternatives FGP0..FGP9
\* (one digit after FGP is what a search for one-or-more digits needs).
re_search(pattern, s) ==
    \E a \in 1..Len(pattern) : AltSearch(pattern[a], s, 1)

REVIEW_DOLLARS == 500

(***************************************************************************)
(* Dataframe selections                                                    *)
(***************************************************************************)
Rows(df) == 1..Len(df)

\* df[mask].drop_duplicates(subset=key, keep="first"): the rows of mask that
\* no earlier row of mask equals on key
DropDuplicates(df, mask, key(_)) ==
    {i \in mask : \A j \in mask : j < i => key(df[j]) # key(df[i])}

\* drop_duplicates() without subset compares every column
WholeRow(row) == row

StatementKey(row) == <<row.date, row.description, row.debit, row.credit>>

\* df.loc[mask, col].sum()
SumOver(df, mask, col) == SeqSum(Column(Select(df, mask, 1), col))

\* str.contains('A|B', case=False) for literal alternatives
ContainsAny(s, alternatives) == \E a \in alternatives : ContainsNoCase(s, a)

(***************************************************************************)
(* Inputs                                                                  *)
(***************************************************************************)
MaxRows == 2

Descriptions == {
    "SHELL GAS BAR",
    "TIM HORTONS #123",
    "WIRE TSF FROM CLIENT",
    "WIRE TSF MOBILE DEPOSIT",
    "GPFS GOVERNMENT CANADA",
    "XYZ HOLDINGS",
    "Costco Gas",
    "E-TRANSFER Lilibeth Sejera",
    "MANULIFE",
    "LIQUOR DEPOT",
    "CANADIAN TIRE",
    "ESSO TIM HORTONS",
    "BRANCH DEPOSIT"
}

\* <<debit, credit>> in cents
AmountPairs == {
    <<10500, 0>>, <<2100, 0>>, <<3000, 0>>, <<50000, 0>>,
    <<0, 500000>>
}

Line(date, description, debit, credit) ==
    [date |-> date, description |-> description, debit |-> debit, credit |-> credit]

\* one-line statements: every description with every amount
SingleLines ==
    {Line("2025-03-01", d, a[1], a[2]) : d \in Descriptions, a \in AmountPairs}

\* the lines of the longer statements
BatchLines == {
    Line("2025-03-03", "WIRE TSF FROM CLIENT", 0, 500000),
    Line("2025-03-03", "WIRE TSF FROM CLIENT", 100, 500000),
    Line("2025-03-03", "WIRE TSF MOBILE DEPOSIT", 0, 100000),
    Line("2025-03-04", "GPFS GOVERNMENT CANADA", 0, 5000),
    Line("2025-03-01", "SHELL GAS BAR", 3000, 0)
}

\* the lines of the statements whose GST period is computed: a fuel and a
\* meal purchase of 3.00, a personal purchase, a receipt, an exempt purchase
GstLines == {
    Line("2025-03-01", "SHELL GAS BAR", 300, 0),
    Line("2025-03-01", "TIM HORTONS #123", 300, 0),
    Line("2025-03-02", "LIQUOR DEPOT", 10500, 0),
    Line("2025-03-03", "WIRE TSF FROM CLIENT", 0, 500000),
    Line("2025-03-04", "MANULIFE", 2100, 0)
}

\* fiscal years ending Nov 30: 2024 is a leap year, 2025 is not
FiscalYears == {2024, 2025}

\* the first and last day of every quarter of the leap fiscal year and of
\* the first and last quarter of the other, and the days just outside them
QuarterDates == {
    "2023-11-30", "2023-12-01", "2024-02-29", "2024-03-01",
    "2024-05-31", "2024-06-01", "2024-08-31", "2024-09-01", "2024-11-30",
    "2024-12-01", "2025-02-28", "2025-03-01", "2025-11-30", "2025-12-01"
}

\* a receipt on each of these days
QuarterLines == {Line(d, "WIRE TSF FROM CLIENT", 0, 500000) : d \in QuarterDates}

\* the lines the shareholder tracker is given: a transfer to each
\* shareholder, a cash withdrawal, a purchase two personal patterns find, a
\* purchase none finds, and a personal purchase that was refunded
TrackerLines == {
    Line("2025-03-05", "INTERNET TRANSFER 000000123 TO: 00099 78-83439", 1200000, 0),
    Line("2025-03-06", "E-TRANSFER Lilibeth Sejera", 50000, 0),
    Line("2025-03-07", "ATM WITHDRAWAL", 10000, 0),
    Line("2025-03-08", "IKEA RESTAURANT", 10000, 0),
    Line("2025-03-09", "SHELL GAS BAR", 3000, 0),
    Line("2025-03-10", "LIQUOR DEPOT", 0, 10500),
    Line("2025-03-11", "SAFEWAY", 0 - 2000, 0)
}

MaxTxns == 3

Shareholders == {"Greg", "Lilibeth"}

FiscalYearEnds == {"2024-11-30", "2025-11-30", "2024-12-31"}

\* the lines of the statements whose reports are compared: a purchase, the
\* same purchase with a credit beside the debit, an unmatched line with both,
\* a line with neither, a receipt, an insurance premium and a personal
\* purchase
ReportLines == {
    Line("2025-03-01", "SHELL GAS BAR", 10500, 0),
    Line("2025-03-01", "SHELL GAS BAR", 10500, 2100),
    Line("2025-03-01", "XYZ HOLDINGS", 10500, 2100),
    Line("2025-03-01", "XYZ HOLDINGS", 0, 0),
    Line("2025-03-03", "WIRE TSF FROM CLIENT", 0, 500000),
    Line("2025-03-04", "MANULIFE", 2100, 0),
    Line("2025-03-02", "LIQUOR DEPOT", 10500, 0)
}

AllLines ==
    SingleLines \cup BatchLines \cup GstLines \cup QuarterLines \cup TrackerLines
        \cup ReportLines

AllDescriptions == {l.description : l \in AllLines}

RECURSIVE SeqsUpTo(_, _)
SeqsUpTo(S, n) ==
    IF n = 0 THEN {<<>>}
    ELSE LET shorter == SeqsUpTo(S, n - 1)
         IN  shorter \cup {Append(s, x) : s \in shorter, x \in S}

\* what load_cibc_csv can hand to the upload handler (never empty)
Statements ==
    {<<l>> : l \in SingleLines} \cup (SeqsUpTo(BatchLines, MaxRows) \ {<<>>})

MaxGstRows == 2

GstStatements == SeqsUpTo(GstLines, MaxGstRows) \ {<<>>}

\* the frames handed to the tracker: each line alone, and three statements of
\* two lines
TrackerFrames ==
    {<<l>> : l \in TrackerLines} \cup {
        <<Line("2025-03-07", "ATM WITHDRAWAL", 10000, 0),
          Line("2025-03-08", "IKEA RESTAURANT", 10000, 0)>>,
        <<Line("2025-03-05", "INTERNET TRANSFER 000000123 TO: 00099 78-83439", 1200000, 0),
          Line("2025-03-06", "E-TRANSFER Lilibeth Sejera", 50000, 0)>>,
        <<Line("2025-03-08", "IKEA RESTAURANT", 10000, 0),
          Line("2025-03-11", "SAFEWAY", 0 - 2000, 0)>>
    }

MaxReportRows == 2

\* the statements whose reports are compared
ReportStatements == SeqsUpTo(ReportLines, MaxReportRows) \ {<<>>}

MaxDividends == 1

\* the totals a dividend is declared for, in cents
DividendTotals == {100000}

MaxQuarterRows == 2

QuarterStatements == SeqsUpTo(QuarterLines, MaxQuarterRows) \ {<<>>}

MaxExpenses == 2

\* what the "Add Cash Expense" and "Add Personal Bank/CC Expense" forms can
\* submit: an amount in cents and a category of the select box
ExpenseEntries == {
    [date |-> "2025-03-01", description |-> "Lunch with client",
     amount |-> 2100, category |-> "Meals (50% ITC)", has_receipt |-> TRUE],
    [date |-> "2025-03-01", description |-> "Crew dinner",
     amount |-> 10500, category |-> "Meals (50% ITC)", has_receipt |-> TRUE],
    [date |-> "2025-03-02", description |-> "Diesel",
     amount |-> 2100, category |-> "Fuel & Petroleum", has_receipt |-> TRUE],
    [date |-> "2025-03-02", description |-> "Safety boots from Marks",
     amount |-> 10500, category |-> "PPE & Safety", has_receipt |-> FALSE]
}

\* the statement in the session while the expense lists are edited
ExpenseStatements == {<<Line("2025-03-01", "SHELL GAS BAR", 10500, 0)>>}

\* the categories a user picks in the editor's select box
EditCategories == {
    "Revenue", "Business Insurance", "Meals & Entertainment (50%)"
}

(***************************************************************************)
(* Rule tables                                                             *)
(***************************************************************************)
CATEGORIES ==
       ("Revenue - Oilfield Services" :> [itc_eligible |-> FALSE, itc_rate |-> 0])
    @@ ("Fuel & Petroleum" :> [itc_eligible |-> TRUE, itc_rate |-> 100])
    @@ ("Vehicle Repairs & Maintenance" :> [itc_eligible |-> TRUE, itc_rate |-> 100])
    @@ ("Equipment & Supplies" :> [itc_eligible |-> TRUE, itc_rate |-> 100])
    @@ ("Subcontractor Payments" :> [itc_eligible |-> TRUE, itc_rate |-> 100])
    @@ ("Office Expenses" :> [itc_eligible |-> TRUE, itc_rate |-> 100])
    @@ ("Professional Fees" :> [itc_eligible |-> TRUE, itc_rate |-> 100])
    @@ ("Insurance - Business" :> [itc_eligible |-> FALSE, itc_rate |-> 0])
    @@ ("Bank Charges & Interest" :> [itc_eligible |-> FALSE, itc_rate |-> 0])
    @@ ("Telephone & Communications" :> [itc_eligible |-> TRUE, itc_rate |-> 100])
    @@ ("Meals & Entertainment (50%)" :> [itc_eligible |-> TRUE, itc_rate |-> 50])
    @@ ("Travel" :> [itc_eligible |-> TRUE, itc_rate |-> 100])
    @@ ("Rent - Commercial" :> [itc_eligible |-> TRUE, itc_rate |-> 100])
    @@ ("Utilities" :> [itc_eligible |-> TRUE, itc_rate |-> 100])
    @@ ("Wages & Salaries" :> [itc_eligible |-> FALSE, itc_rate |-> 0])
    @@ ("Shareholder Distribution" :> [itc_eligible |-> FALSE, itc_rate |-> 0])
    @@ ("Shareholder Loan - Personal Expense" :> [itc_eligible |-> FALSE, itc_rate |-> 0])
    @@ ("Loan Payment - Business Vehicle" :> [itc_eligible |-> FALSE, itc_rate |-> 0])
    @@ ("Loan Payment - Personal" :> [itc_eligible |-> FALSE, itc_rate |-> 0])
    @@ ("GST Remittance" :> [itc_eligible |-> FALSE, itc_rate |-> 0])
    @@ ("Income Tax Installment" :> [itc_eligible |-> FALSE, itc_rate |-> 0])
    @@ ("GST Refund" :> [itc_eligible |-> FALSE, itc_rate |-> 0])
    @@ ("Transfer - Non-Taxable" :> [itc_eligible |-> FALSE, itc_rate |-> 0])
    @@ ("CCA - Capital Asset" :> [itc_eligible |-> TRUE, itc_rate |-> 100])
    @@ ("Other Expense" :> [itc_eligible |-> TRUE, itc_rate |-> 100])

CLASSIFICATION_RULES == <<
    [pattern |-> <<<<"WIRE TSF", "PRICEWATERHOUSE">>, <<"LONG RUN">>, <<"CONTRACTOR INV">>>>,
     category |-> "Revenue - Oilfield Services", is_personal |-> FALSE, needs_review |-> FALSE],
    [pattern |-> <<<<"WIRE TSF", "EXPLORATION">>>>,
     category |-> "Revenue - Oilfield Services", is_personal |-> FALSE, needs_review |-> FALSE],
    [pattern |-> <<<<"MOBILE DEPOSIT">>>>,
     category |-> "Revenue - Oilfield Services", is_personal |-> FALSE, needs_review |-> TRUE],
    [pattern |-> <<<<"E-TRANSFER", "Paula Gour">>>>,
     category |-> "Revenue - Oilfield Services", is_personal |-> FALSE, needs_review |-> FALSE],
    [pattern |-> <<<<"E-TRANSFER", "Angela Henderson">>>>,
     category |-> "Revenue - Oilfield Services", is_personal |-> FALSE, needs_review |-> FALSE],
    [pattern |-> <<<<"INTERNET TRANSFER", "TO:", "00099", "78-83439">>>>,
     category |-> "Shareholder Distribution", is_personal |-> FALSE, needs_review |-> FALSE],
    [pattern |-> <<<<"E-TRANSFER", "Lilibeth Sejera">>>>,
     category |-> "Shareholder Distribution", is_personal |-> FALSE, needs_review |-> FALSE],
    [pattern |-> <<<<"ATM WITHDRAWAL">>, <<"ABM WITHDRAWAL">>>>,
     category |-> "Shareholder Distribution", is_personal |-> FALSE, needs_review |-> FALSE],
    [pattern |-> <<<<"BRANCH", "WITHDRAWAL">>>>,
     category |-> "Shareholder Distribution", is_personal |-> FALSE, needs_review |-> FALSE],
    [pattern |-> <<<<"TD ON-LINE LOANS">>, <<"LOAN PAYMENT", "TD">>>>,
     category |-> "Loan Payment - Business Vehicle", is_personal |-> FALSE, needs_review |-> FALSE],
    [pattern |-> <<<<"LOAN PAYMENT", "SCOTIA BANK">>, <<"SCOTIA BANK", "LOAN">>>>,
     category |-> "Loan Payment - Personal", is_personal |-> TRUE, needs_review |-> FALSE],
    [pattern |-> <<<<"rent@realtyfocus">>, <<"rent@realtyexecutives">>, <<"REALTYFOCUS">>>>,
     category |-> "Rent - Commercial", is_personal |-> FALSE, needs_review |-> FALSE],
    [pattern |-> <<<<"ACCOUNT FEE">>, <<"SERVICE CHARGE">>, <<"MONTHLY", "FEE">>, <<"OVERDRAFT", "FEE">>, <<"NSF">>, <<"OVER LIMIT">>>>,
     category |-> "Bank Charges & Interest", is_personal |-> FALSE, needs_review |-> FALSE],
    [pattern |-> <<<<"OVERDRAFT INTEREST">>, <<"INTEREST CHARGE">>>>,
     category |-> "Bank Charges & Interest", is_personal |-> FALSE, needs_review |-> FALSE],
    [pattern |-> <<<<"DEBIT MEMO", "GOVERNMENT">>, <<"GPFS", "GOVERNMENT">>>>,
     category |-> "GST Remittance", is_personal |-> FALSE, needs_review |-> FALSE],
    [pattern |-> <<<<"MANULIFE">>>>,
     category |-> "Insurance - Business", is_personal |-> FALSE, needs_review |-> FALSE],
    [pattern |-> <<<<"KOODO">>, <<"TELUS">>, <<"BELL">>, <<"ROGERS">>, <<"FIDO">>>>,
     category |-> "Telephone & Communications", is_personal |-> FALSE, needs_review |-> FALSE],
    [pattern |-> <<<<"PETRO-CANADA">>, <<"PETRO CANADA">>, <<"SHELL">>, <<"ESSO">>, <<"CHEVRON">>, <<"CENTEX">>, <<"MOBIL">>, <<"DOMO GAS">>>>,
     category |-> "Fuel & Petroleum", is_personal |-> FALSE, needs_review |-> FALSE],
    [pattern |-> <<<<"FAS GA">>, <<"FGP0">>, <<"FGP1">>, <<"FGP2">>, <<"FGP3">>, <<"FGP4">>, <<"FGP5">>, <<"FGP6">>, <<"FGP7">>, <<"FGP8">>, <<"FGP9">>>>,
     category |-> "Fuel & Petroleum", is_personal |-> FALSE, needs_review |-> FALSE],
    [pattern |-> <<<<"CO-OP", "BRIN">>, <<"NC CO-OP">>, <<"CIRCLE K">>>>,
     category |-> "Fuel & Petroleum", is_personal |-> FALSE, needs_review |-> FALSE],
    [pattern |-> <<<<"REDWATER ESSO">>, <<"BRUDERHEIM ESSO">>>>,
     category |-> "Fuel & Petroleum", is_personal |-> FALSE, needs_review |-> FALSE],
    [pattern |-> <<<<"OK TIRE">>, <<"NAPA">>, <<"PART SOURCE">>, <<"JIFFY LUBE">>>>,
     category |-> "Vehicle Repairs & Maintenance", is_personal |-> FALSE, needs_review |-> FALSE],
    [pattern |-> <<<<"CANADIAN TIRE">>>>,
     category |-> "Vehicle Repairs & Maintenance", is_personal |-> FALSE, needs_review |-> TRUE],
    [pattern |-> <<<<"REDWATER REGIST">>, <<"REGISTRY">>>>,
     category |-> "Vehicle Repairs & Maintenance", is_personal |-> FALSE, needs_review |-> FALSE],
    [pattern |-> <<<<"PRINCESS AUTO">>>>,
     category |-> "Equipment & Supplies", is_personal |-> FALSE, needs_review |-> FALSE],
    [pattern |-> <<<<"HOME HARDWARE">>, <<"WESTLOCK HOME">>, <<"REDWATER HOME">>>>,
     category |-> "Equipment & Supplies", is_personal |-> FALSE, needs_review |-> FALSE],
    [pattern |-> <<<<"COSTCO BUSINESS">>>>,
     category |-> "Equipment & Supplies", is_personal |-> FALSE, needs_review |-> FALSE],
    [pattern |-> <<<<"NOTARY">>, <<"LAWYER">>, <<"LEGAL">>, <<"ACCOUNTANT">>, <<"CPA">>, <<"BOOKKEEP">>>>,
     category |-> "Professional Fees", is_personal |-> FALSE, needs_review |-> FALSE],
    [pattern |-> <<<<"EDMONTON NOTARY">>>>,
     category |-> "Professional Fees", is_personal |-> FALSE, needs_review |-> FALSE],
    [pattern |-> <<<<"WORKERS COMP">>, <<"WCB">>>>,
     category |-> "Professional Fees", is_personal |-> FALSE, needs_review |-> FALSE],
    [pattern |-> <<<<"TIM HORTONS">>>>,
     category |-> "Meals & Entertainment (50%)", is_personal |-> FALSE, needs_review |-> FALSE],
    [pattern |-> <<<<"A&W ">>, <<"MCDONALD">>, <<"WENDY">>, <<"SUBWAY">>>>,
     category |-> "Meals & Entertainment (50%)", is_personal |-> FALSE, needs_review |-> FALSE],
    [pattern |-> <<<<"ACHTI", "STEAK">>, <<"RAINBOW RESTAUR">>, <<"UPTOWN PIZZA">>>>,
     category |-> "Meals & Entertainment (50%)", is_personal |-> FALSE, needs_review |-> FALSE],
    [pattern |-> <<<<"JOEY">>, <<"DQ GRILL">>>>,
     category |-> "Meals & Entertainment (50%)", is_personal |-> FALSE, needs_review |-> FALSE],
    [pattern |-> <<<<"LIQUOR">>, <<"WINE RACK">>, <<"BEER STORE">>>>,
     category |-> "Shareholder Loan - Personal Expense", is_personal |-> TRUE, needs_review |-> FALSE],
    [pattern |-> <<<<"CANNABIS">>, <<"GREEN SOLUTION">>, <<"KURVE CANNABIS">>, <<"PLANTLIFE">>, <<"THC">>, <<"CANNA CABANA">>>>,
     category |-> "Shareholder Loan - Personal Expense", is_personal |-> TRUE, needs_review |-> FALSE],
    [pattern |-> <<<<"IKEA">>>>,
     category |-> "Shareholder Loan - Personal Expense", is_personal |-> TRUE, needs_review |-> FALSE],
    [pattern |-> <<<<"LITTLE STEPS">>, <<"DAYCARE">>, <<"CHILD CARE">>>>,
     category |-> "Shareholder Loan - Personal Expense", is_personal |-> TRUE, needs_review |-> FALSE],
    [pattern |-> <<<<"IGA">>, <<"REDWATER IGA">>, <<"GROCERY">>, <<"SUPERMARKET">>, <<"SAFEWAY">>, <<"SUPERSTORE">>, <<"T&T SUPERMARKET">>>>,
     category |-> "Shareholder Loan - Personal Expense", is_personal |-> TRUE, needs_review |-> FALSE],
    [pattern |-> <<<<"HOLDEN COLONY">>>>,
     category |-> "Shareholder Loan - Personal Expense", is_personal |-> TRUE, needs_review |-> FALSE],
    [pattern |-> <<<<"WALMART">>>>,
     category |-> "Shareholder Loan - Personal Expense", is_personal |-> TRUE, needs_review |-> TRUE],
    [pattern |-> <<<<"DOLLARAMA">>>>,
     category |-> "Shareholder Loan - Personal Expense", is_personal |-> TRUE, needs_review |-> TRUE],
    [pattern |-> <<<<"VALUE VILLAGE">>, <<"GOODWILL">>, <<"URBAN PLANET">>>>,
     category |-> "Shareholder Loan - Personal Expense", is_personal |-> TRUE, needs_review |-> FALSE],
    [pattern |-> <<<<"RED APPLE">>>>,
     category |-> "Shareholder Loan - Personal Expense", is_personal |-> TRUE, needs_review |-> FALSE],
    [pattern |-> <<<<"BARBER">>, <<"SALON">>, <<"NAILS">>, <<"BROW BAR">>>>,
     category |-> "Shareholder Loan - Personal Expense", is_personal |-> TRUE, needs_review |-> FALSE],
    [pattern |-> <<<<"MANILA GRILL">>, <<"JOLLIBEE">>, <<"SEAFOOD CITY">>, <<"KOKORIKO">>, <<"PHO">>, <<"GIGA", "PINOY">>>>,
     category |-> "Shareholder Loan - Personal Expense", is_personal |-> TRUE, needs_review |-> FALSE],
    [pattern |-> <<<<"BUFFET ROYALE">>, <<"YANG MING">>, <<"KHAN RESTAURANT">>>>,
     category |-> "Shareholder Loan - Personal Expense", is_personal |-> TRUE, needs_review |-> FALSE],
    [pattern |-> <<<<"AMAZON">>, <<"TEMU">>, <<"IHERB">>, <<"ETSY">>>>,
     category |-> "Shareholder Loan - Personal Expense", is_personal |-> TRUE, needs_review |-> TRUE],
    [pattern |-> <<<<"SNOW VALLEY">>, <<"KICKS SALOO">>, <<"VENUE">>>>,
     category |-> "Shareholder Loan - Personal Expense", is_personal |-> TRUE, needs_review |-> FALSE],
    [pattern |-> <<<<"E-TRANSFER">>, <<"INTERNET TRANSFER">>>>,
     category |-> "Transfer - Non-Taxable", is_personal |-> FALSE, needs_review |-> TRUE],
    [pattern |-> <<<<"DEPOSIT">>>>,
     category |-> "Transfer - Non-Taxable", is_personal |-> FALSE, needs_review |-> TRUE]
>>

CRA_CATEGORIES == <<
    [name |-> "Fuel & Petroleum", itc_pct |-> 100,
     keywords |-> <<"SHELL", "ESSO", "PETRO", "HUSKY", "GAS", "FUEL", "PIONEER", "MOBIL", "CHEVRON", "CO-OP", "CENTEX", "DOMO", "FAS GA", "FGP", "CIRCLE K">>],
    [name |-> "Vehicle Repairs", itc_pct |-> 100,
     keywords |-> <<"CANADIAN TIRE", "NAPA", "LORDCO", "KAL TIRE", "OK TIRE", "JIFFY", "PART SOURCE", "CARWASH", "REGISTR">>],
    [name |-> "Meals (50% ITC)", itc_pct |-> 50,
     keywords |-> <<"TIM HORTON", "SUBWAY", "MCDON", "A&W", "WENDY", "BOSTON PIZZA", "DENNY", "SMITTY", "RESTAURANT", "DAIRY QUEEN", "ACHTI", "PIZZA", "CAFE", "COFFEE", "J&R DRIVE">>],
    [name |-> "Equipment & Supplies", itc_pct |-> 100,
     keywords |-> <<"OFFICE", "STAPLES", "WALMART", "COSTCO", "HOME DEPOT", "LOWES", "MARKS WORK", "PRINCESS AUTO", "HOME HARDWARE">>],
    [name |-> "Insurance", itc_pct |-> 0,
     keywords |-> <<"INSURANCE", "INTACT", "MANULIFE", "WAWANESA">>],
    [name |-> "Professional Fees", itc_pct |-> 100,
     keywords |-> <<"LAWYER", "LEGAL", "ACCOUNTANT", "CPA", "BOOKKEEP", "NOTARY", "WCB", "WORKERS COMP">>],
    [name |-> "Bank Charges", itc_pct |-> 0,
     keywords |-> <<"BANK FEE", "SERVICE CHARGE", "INTEREST", "NSF", "MONTHLY FEE", "BANK CHARGE">>],
    [name |-> "Telephone", itc_pct |-> 100,
     keywords |-> <<"KOODO", "TELUS", "BELL", "ROGERS", "FIDO">>],
    [name |-> "Rent", itc_pct |-> 0,
     keywords |-> <<"RENT", "REALTYFOCUS", "LANDLORD">>],
    [name |-> "Utilities", itc_pct |-> 100,
     keywords |-> <<"ATCO", "EPCOR", "ENMAX", "DIRECT ENERGY", "FORTIS">>],
    [name |-> "Subcontractor", itc_pct |-> 100,
     keywords |-> <<"SUBCONTRACT">>],
    [name |-> "Wages & Payroll", itc_pct |-> 0,
     keywords |-> <<"PAYROLL", "SALARY", "WAGES">>],
    [name |-> "GST Remittance", itc_pct |-> 0,
     keywords |-> <<"RECEIVER GENERAL", "GST", "CRA", "GOVERNMENT">>],
    [name |-> "Loan Payment", itc_pct |-> 0,
     keywords |-> <<"LOAN", "FINANCING", "LEASE PMT">>],
    [name |-> "Shareholder Distribution", itc_pct |-> 0,
     keywords |-> <<"LILIBETH", "SEJERA", "GREG", "MACDONALD">>]
>>

REVENUE_KEYWORDS == <<"WIRE TSF", "MOBILE DEP", "BRANCH DEP", "DEPOSIT", "E-TRANSFER", "INTERAC">>

ALL_CATEGORIES == <<
    "Revenue",
    "Bank Charges & Interest",
    "Business Insurance",
    "CCA - Capital Asset",
    "Corporate Tax Payment",
    "Equipment & Supplies",
    "Fuel & Petroleum",
    "GST Remittance",
    "Home Office Expenses",
    "Income Tax Installment",
    "Loan Payment - Interest",
    "Loan Payment - Principal",
    "Management & Admin Fees",
    "Meals & Entertainment (50%)",
    "Office Rent - Commercial",
    "Office Supplies",
    "Other / Unclassified",
    "PPE & Safety Equipment",
    "Personal - Not Deductible",
    "Postage & Shipping",
    "Professional Fees",
    "Shareholder Distribution",
    "Shareholder Loan - Personal",
    "Software & Subscriptions",
    "Subcontractor Payments",
    "Telephone & Internet",
    "Training & Certifications",
    "Transfer - Non-Taxable",
    "Travel & Accommodation",
    "Utilities",
    "Vehicle Insurance",
    "Vehicle Lease/Loan Payment",
    "Vehicle Repairs & Maintenance",
    "Wages & Payroll"
>>

ITC_RATES ==
       ("Revenue" :> 0)
    @@ ("Fuel & Petroleum" :> 100)
    @@ ("Vehicle Repairs & Maintenance" :> 100)
    @@ ("Vehicle Insurance" :> 0)
    @@ ("Vehicle Lease/Loan Payment" :> 0)
    @@ ("Office Supplies" :> 100)
    @@ ("Office Rent - Commercial" :> 100)
    @@ ("Home Office Expenses" :> 100)
    @@ ("Telephone & Internet" :> 100)
    @@ ("Software & Subscriptions" :> 100)
    @@ ("Postage & Shipping" :> 100)
    @@ ("Equipment & Supplies" :> 100)
    @@ ("Subcontractor Payments" :> 100)
    @@ ("Training & Certifications" :> 100)
    @@ ("PPE & Safety Equipment" :> 100)
    @@ ("Travel & Accommodation" :> 100)
    @@ ("Meals & Entertainment (50%)" :> 50)
    @@ ("Professional Fees" :> 100)
    @@ ("Management & Admin Fees" :> 100)
    @@ ("Business Insurance" :> 0)
    @@ ("Bank Charges & Interest" :> 0)
    @@ ("Loan Payment - Principal" :> 0)
    @@ ("Loan Payment - Interest" :> 0)
    @@ ("Wages & Payroll" :> 0)
    @@ ("Shareholder Distribution" :> 0)
    @@ ("Shareholder Loan - Personal" :> 0)
    @@ ("GST Remittance" :> 0)
    @@ ("Corporate Tax Payment" :> 0)
    @@ ("Income Tax Installment" :> 0)
    @@ ("Personal - Not Deductible" :> 0)
    @@ ("Transfer - Non-Taxable" :> 0)
    @@ ("Utilities" :> 100)
    @@ ("CCA - Capital Asset" :> 0)
    @@ ("Other / Unclassified" :> 100)

(***************************************************************************)
(* helpers/transaction_classifier_OLD.py: TransactionClassifier            *)
(***************************************************************************)
\* the for loop over CLASSIFICATION_RULES, from rule i on: the first rule
\* whose pattern is found returns; the code after the loop is the fall-through
RECURSIVE TransactionClassifier_rule_loop(_, _, _, _)
TransactionClassifier_rule_loop(i, description_upper, debit, credit) ==
    IF i > Len(CLASSIFICATION_RULES) THEN
        IF credit > 0 THEN
            [cra_category |-> "Revenue - Oilfield Services",
             is_personal |-> FALSE, needs_review |-> TRUE,
             itc_amount |-> 0, notes |-> "Unclassified credit - review"]
        ELSE
            [cra_category |-> "Other Expense",
             is_personal |-> FALSE, needs_review |-> TRUE,
             itc_amount |-> round2(GstInPurchase(Amount(debit))),
             notes |-> "Unclassified - review"]
    ELSE
        LET rule == CLASSIFICATION_RULES[i] IN
        IF re_search(rule.pattern, description_upper) THEN
            LET cat_info ==
                    IF rule.category \in DOMAIN CATEGORIES
                    THEN CATEGORIES[rule.category]
                    ELSE [itc_eligible |-> FALSE, itc_rate |-> 0]
                itc_amount ==
                    IF cat_info.itc_eligible /\ debit > 0 /\ ~rule.is_personal
                    THEN TimesPct(GstInPurchase(Amount(debit)), cat_info.itc_rate)
                    ELSE 0
                needs_review ==
                    IF /\ debit >= REVIEW_DOLLARS * 100
                       /\ rule.category \in {"Equipment & Supplies",
                                             "Vehicle Repairs & Maintenance"}
                    THEN TRUE
                    ELSE rule.needs_review
            IN  [cra_category |-> rule.category,
                 is_personal |-> rule.is_personal,
                 needs_review |-> needs_review,
                 itc_amount |-> round2(itc_amount),
                 notes |-> ""]
        ELSE TransactionClassifier_rule_loop(i + 1, description_upper, debit, credit)

TransactionClassifier_classify_transaction(description, debit, credit) ==
    LET description_upper == upper(description) IN
    IF Contains(description_upper, "GOVERNMENT CANADA") THEN
        IF credit > 0 THEN
            [cra_category |-> "GST Refund",
             is_personal |-> FALSE, needs_review |-> FALSE, itc_amount |-> 0,
             notes |-> "Government credit - GST refund or carbon rebate"]
        ELSE
            [cra_category |-> "Income Tax Installment",
             is_personal |-> FALSE, needs_review |-> FALSE, itc_amount |-> 0,
             notes |-> "Tax installment"]
    ELSE TransactionClassifier_rule_loop(1, description_upper, debit, credit)

\* classify_transaction is a pure function of its arguments: its value for
\* each line of the model, computed once
TransactionClassifier_memo ==
    [l \in {<<x.description, x.debit, x.credit>> : x \in AllLines} |->
        TransactionClassifier_classify_transaction(l[1], l[2], l[3])]

TransactionClassifier_classify_dataframe(df) ==
    \* df.drop_duplicates(subset=[date, description, debit, credit], keep="first")
    LET kept == Select(df, DropDuplicates(df, Rows(df), StatementKey), 1) IN
    [i \in 1..Len(kept) |->
        TransactionClassifier_memo[<<kept[i].description, kept[i].debit, kept[i].credit>>]
            @@ kept[i]]

(***************************************************************************)
(* app.py: the classification engine of the running application            *)
(***************************************************************************)
RECURSIVE AnyKeyword(_, _, _)
AnyKeyword(keywords, desc_upper, k) ==
    IF k > Len(keywords) THEN FALSE
    ELSE IF Contains(desc_upper, keywords[k]) THEN TRUE
    ELSE AnyKeyword(keywords, desc_upper, k + 1)

\* category_loop without its early return: a later matching entry overwrites
\* an earlier one
RECURSIVE category_loop_last_match(_, _)
category_loop_last_match(c, desc_upper) ==
    IF c > Len(CRA_CATEGORIES) THEN
        [cat |-> "Other / Unclassified", pct |-> 100]
    ELSE
        LET later == category_loop_last_match(c + 1, desc_upper) IN
        IF /\ AnyKeyword(CRA_CATEGORIES[c].keywords, desc_upper, 1)
           /\ later.cat = "Other / Unclassified"
        THEN [cat |-> CRA_CATEGORIES[c].name, pct |-> CRA_CATEGORIES[c].itc_pct]
        ELSE later

\* the loop over CRA_CATEGORIES.items(), from entry c on
RECURSIVE category_loop(_, _)
category_loop(c, desc_upper) ==
    IF c > Len(CRA_CATEGORIES) THEN
        [cat |-> "Other / Unclassified", pct |-> 100]
    ELSE IF AnyKeyword(CRA_CATEGORIES[c].keywords, desc_upper, 1) THEN
        [cat |-> CRA_CATEGORIES[c].name, pct |-> CRA_CATEGORIES[c].itc_pct]
    ELSE category_loop(c + 1, desc_upper)

classify_transaction(desc) ==
    LET desc_upper == upper(desc) IN
    IF AnyKeyword(REVENUE_KEYWORDS, desc_upper, 1)
    THEN [cat |-> "Revenue", pct |-> 0]
    ELSE category_loop(1, desc_upper)

\* classify_transaction is a pure function of the description: its value for
\* each description of the model, computed once
classify_memo == [d \in AllDescriptions |-> classify_transaction(d)]

\* classify_row adding to the itc_amount a row already carries
classify_row_accumulate(row) ==
    LET c == classify_memo[row.description]
        itc == GstInPurchase(TimesPct(Amount(row.debit), c.pct))
        carried == IF "itc_amount" \in DOMAIN row THEN row.itc_amount ELSE 0
    IN  [cra_category |-> c.cat,
         itc_pct |-> c.pct,
         itc_amount |-> IF c.cat = "Revenue" THEN 0 ELSE carried + itc] @@ row

\* the body of classify_dataframe for one row: the category and rate of
\* classify_transaction, then the two itc_amount assignments
classify_row(row) ==
    LET c == classify_memo[row.description]
        itc == GstInPurchase(TimesPct(Amount(row.debit), c.pct))
    IN  [cra_category |-> c.cat,
         itc_pct |-> c.pct,
         itc_amount |-> IF c.cat = "Revenue" THEN 0 ELSE itc] @@ row

classify_dataframe(df) == [i \in 1..Len(df) |-> classify_row(df[i])]

\* CRA_CATEGORIES[name] for a name that is a key of the dict
CraEntry(name) ==
    CHOOSE e \in {CRA_CATEGORIES[c] : c \in 1..Len(CRA_CATEGORIES)} : e.name = name

CraNames == {CRA_CATEGORIES[c].name : c \in 1..Len(CRA_CATEGORIES)}

\* apply_edit taking the debit as GST-exclusive (debit * pct * 0.05)
apply_edit_exclusive(row, new_cat) ==
    LET pct == IF new_cat \in CraNames THEN CraEntry(new_cat).itc_pct
               ELSE IF new_cat = "Revenue" THEN 0
               ELSE 100
    IN  [cra_category |-> new_cat,
         itc_pct |-> pct,
         itc_amount |-> IF new_cat # "Revenue"
                        THEN FivePercent(TimesPct(Amount(row.debit), pct))
                        ELSE 0] @@ row

\* the body of the loop of both "Save" handlers for one edited row
apply_edit(row, new_cat) ==
    LET pct == IF new_cat \in CraNames THEN CraEntry(new_cat).itc_pct
               ELSE IF new_cat = "Revenue" THEN 0
               ELSE 100
    IN  [cra_category |-> new_cat,
         itc_pct |-> pct,
         itc_amount |-> IF new_cat # "Revenue"
                        THEN GstInPurchase(TimesPct(Amount(row.debit), pct))
                        ELSE 0] @@ row

(***************************************************************************)
(* helpers/revenue_simple.py                                               *)
(***************************************************************************)
calculate_revenue(df) ==
    LET wire_mask == {i \in Rows(df) :
            df[i].credit > 0 /\ ContainsNoCase(df[i].description, "WIRE TSF")}
        wire_df == DropDuplicates(df, wire_mask, WholeRow)
        mobile_mask == {i \in Rows(df) :
            df[i].credit > 0 /\ ContainsNoCase(df[i].description, "MOBILE DEPOSIT")}
        mobile_df == DropDuplicates(df, mobile_mask, WholeRow)
        branch_mask == {i \in Rows(df) :
            /\ df[i].credit > 0
            /\ \/ ContainsNoCase(df[i].description, "BRANCH DEPOSIT")
               \/ ContainsNoCase(df[i].description, "COUNTER DEPOSIT")
               \/ ContainsNoCase(df[i].description, "DEPOSIT IN BRANCH")}
        branch_df == DropDuplicates(df, branch_mask, WholeRow)
        wire_total == SumOver(df, wire_df, "credit")
        mobile_total == SumOver(df, mobile_df, "credit")
        branch_total == SumOver(df, branch_df, "credit")
        total == wire_total + mobile_total + branch_total
    IN  [wire_total |-> wire_total,
         mobile_total |-> mobile_total,
         branch_total |-> branch_total,
         total |-> total,
         total_revenue |-> total,
         wire_count |-> Cardinality(wire_df),
         mobile_count |-> Cardinality(mobile_df),
         branch_count |-> Cardinality(branch_df),
         total_transactions |->
            Cardinality(wire_df) + Cardinality(mobile_df) + Cardinality(branch_df),
         \* the three dataframes, as the index labels of their rows in df
         wire_df |-> wire_df,
         mobile_df |-> mobile_df,
         branch_df |-> branch_df]

(***************************************************************************)
(* The channel masks shared by the Revenue page and the accountant export  *)
(***************************************************************************)
channel_masks(df, credits) ==
    LET wire_mask == {i \in credits : ContainsAny(df[i].description, {"WIRE TSF"})}
        mobile_mask == {i \in credits :
            ContainsAny(df[i].description, {"MOBILE DEP"})} \ wire_mask
        branch_mask == ({i \in credits :
            ContainsAny(df[i].description, {"BRANCH DEP", "DEPOSIT"})}
                \ wire_mask) \ mobile_mask
        etransfer_mask == (({i \in credits :
            ContainsAny(df[i].description, {"E-TRANSFER", "INTERAC"})}
                \ wire_mask) \ mobile_mask) \ branch_mask
        other_mask == (((credits \ wire_mask) \ mobile_mask) \ branch_mask)
                        \ etransfer_mask
    IN  [wire |-> wire_mask, mobile |-> mobile_mask, branch |-> branch_mask,
         etransfer |-> etransfer_mask, other |-> other_mask]

\* app.py, page "Revenue": the metrics it shows
revenue_page(df) ==
    LET all_credits == {i \in Rows(df) : df[i].credit > 0}
        credits == {i \in all_credits : df[i].cra_category = "Revenue"}
        m == channel_masks(df, credits)
        grand_total == SumOver(df, credits, "credit")
    IN  [wire_total |-> SumOver(df, m.wire, "credit"),
         mobile_total |-> SumOver(df, m.mobile, "credit"),
         branch_total |-> SumOver(df, m.branch, "credit"),
         etransfer_total |-> SumOver(df, m.etransfer, "credit"),
         other_total |-> SumOver(df, m.other, "credit"),
         grand_total |-> grand_total,
         gst_collected |-> FivePercent(Amount(grand_total)),
         wire |-> m.wire, mobile |-> m.mobile, branch |-> m.branch,
         etransfer |-> m.etransfer, other |-> m.other]

\* helpers/export_accountant.py
build_revenue_breakdown(df) ==
    LET credits == {i \in Rows(df) : df[i].credit > 0}
        m == channel_masks(df, credits)
    IN  [wire |-> m.wire, mobile |-> m.mobile, branch |-> m.branch,
         etransfer |-> m.etransfer,
         wire_total |-> SumOver(df, m.wire, "credit"),
         mobile_total |-> SumOver(df, m.mobile, "credit"),
         branch_total |-> SumOver(df, m.branch, "credit"),
         etransfer_total |-> SumOver(df, m.etransfer, "credit"),
         grand_total |-> SumOver(df, credits, "credit")]

\* generate_pdf and generate_excel, section "Cash Expenses": the ITC of each
\* entry and their total
export_cash_expenses(expenses) ==
    LET itc == [i \in 1..Len(expenses) |-> GstInPurchase(Amount(expenses[i].amount))]
    IN  [itc |-> itc, cash_itc |-> SeqSum(itc)]

\* app.py, pages "Cash Expenses" and "Personal Bank/CC": the itc column of the
\* table and its total
expense_page(expenses) ==
    LET itc == [i \in 1..Len(expenses) |->
                    IF ContainsNoCase(expenses[i].category, "Meal")
                    THEN GstInPurchase(TimesPct(Amount(expenses[i].amount), 50))
                    ELSE GstInPurchase(Amount(expenses[i].amount))]
    IN  [itc |-> itc, total_itc |-> SeqSum(itc),
         total |-> SeqSum([i \in 1..Len(expenses) |-> expenses[i].amount])]

\* generate_pdf and generate_excel: the revenue section and the GST line
export_revenue(df) ==
    LET rev == build_revenue_breakdown(df) IN
    [rev |-> rev, gst_collected |-> FivePercent(Amount(rev.grand_total))]

\* the ITC of one cash or personal-account entry on the GST Filing page
side_itc(e) ==
    IF Contains(e.category, "Meal")
    THEN GstInPurchase(TimesPct(Amount(e.amount), 50))
    ELSE GstInPurchase(Amount(e.amount))

\* app.py, page "GST Filing".  The phone bill and the other-expense lists
\* stay as init_state leaves them (no months billed, no entries), so
\* phone_itc and other_itc are 0.
gst_filing_page(df) ==
    LET revenue == SumOver(df, {i \in Rows(df) : df[i].credit > 0}, "credit")
        gst_collected == FivePercent(Amount(revenue))
        bank_itc == SumOver(df, {i \in Rows(df) : df[i].itc_amount > 0}, "itc_amount")
        cash_itc == SeqSum([i \in 1..Len(cash_expenses) |-> side_itc(cash_expenses[i])])
        personal_itc ==
            SeqSum([i \in 1..Len(personal_expenses) |-> side_itc(personal_expenses[i])])
        phone_itc == 0
        other_itc == 0
        total_itc == bank_itc + cash_itc + personal_itc + phone_itc + other_itc
        net_gst == gst_collected - total_itc
    IN  [revenue |-> revenue, gst_collected |-> gst_collected, bank_itc |-> bank_itc,
         cash_itc |-> cash_itc, personal_itc |-> personal_itc,
         total_itc |-> total_itc, net_gst |-> net_gst,
         line_109 |-> IF net_gst > 0 THEN "NET GST OWING" ELSE "GST REFUND"]

(***************************************************************************)
(* helpers/gst_calculator.py: GSTCalculator                                *)
(***************************************************************************)
TAXABLE_REVENUE_CATEGORIES == {"Revenue - Oilfield Services"}

EXEMPT_REVENUE_CATEGORIES == {"Transfer - Non-Taxable", "GST Refund"}

\* ITC_GROUPS with the fuel group left empty
ITC_GROUPS_without_fuel ==
    <<
    [name |-> "itc_fuel", categories |-> {}],
    [name |-> "itc_equipment", categories |->
        {"Equipment & Supplies", "Vehicle Repairs & Maintenance", "CCA - Capital Asset"}],
    [name |-> "itc_professional", categories |-> {"Professional Fees"}],
    [name |-> "itc_meals", categories |-> {"Meals & Entertainment (50%)"}],
    [name |-> "itc_other", categories |->
        {"Office Expenses", "Telephone & Communications", "Travel",
         "Rent - Commercial", "Utilities", "Other Expense", "Subcontractor Payments"}]
    >>

ITC_GROUPS ==
    <<
    [name |-> "itc_fuel", categories |-> {"Fuel & Petroleum"}],
    [name |-> "itc_equipment", categories |->
        {"Equipment & Supplies", "Vehicle Repairs & Maintenance", "CCA - Capital Asset"}],
    [name |-> "itc_professional", categories |-> {"Professional Fees"}],
    [name |-> "itc_meals", categories |-> {"Meals & Entertainment (50%)"}],
    [name |-> "itc_other", categories |->
        {"Office Expenses", "Telephone & Communications", "Travel",
         "Rent - Commercial", "Utilities", "Other Expense", "Subcontractor Payments"}]
    >>

NO_ITC_CATEGORIES == {
    "Insurance - Business", "Bank Charges & Interest", "Wages & Salaries",
    "Shareholder Distribution", "Shareholder Loan - Personal Expense",
    "Loan Payment - Business Vehicle", "Loan Payment - Personal",
    "GST Remittance", "Income Tax Installment", "GST Refund",
    "Transfer - Non-Taxable"
}

\* the unrounded ITC of one group
group_itc(df, g) ==
    SumOver(df, {i \in Rows(df) : /\ df[i].cra_category \in ITC_GROUPS[g].categories
                                  /\ df[i].is_personal = FALSE}, "itc_amount")

\* calculate_period(df) with no start_date and no end_date
calculate_period(df) ==
    LET revenue_mask == {i \in Rows(df) :
            df[i].cra_category \in TAXABLE_REVENUE_CATEGORIES /\ df[i].credit > 0}
        total_revenue == Amount(SumOver(df, revenue_mask, "credit"))
        exempt_mask == {i \in Rows(df) :
            df[i].cra_category \in EXEMPT_REVENUE_CATEGORIES /\ df[i].credit > 0}
        exempt_revenue == Amount(SumOver(df, exempt_mask, "credit"))
        gst_collected == GstInPurchase(total_revenue)
        groups == [g \in 1..Len(ITC_GROUPS) |-> group_itc(df, g)]
        total_itc == SeqSum(groups)
    IN  [total_revenue |-> round2(total_revenue),
         exempt_revenue |-> round2(exempt_revenue),
         gst_collected |-> round2(gst_collected),
         groups |-> [g \in 1..Len(ITC_GROUPS) |-> round2(groups[g])],
         total_itc |-> round2(total_itc),
         net_gst |-> round2(gst_collected - total_itc)]

\* one decimal digit
Digit(c) ==
    CASE c = "0" -> 0 [] c = "1" -> 1 [] c = "2" -> 2 [] c = "3" -> 3
      [] c = "4" -> 4 [] c = "5" -> 5 [] c = "6" -> 6 [] c = "7" -> 7
      [] c = "8" -> 8 [] c = "9" -> 9

RECURSIVE Number(_)
Number(s) ==
    IF Len(s) = 0 THEN 0
    ELSE 10 * Number(SubSeq(s, 1, Len(s) - 1)) + Digit(SubSeq(s, Len(s), Len(s)))

\* pd.to_datetime of a 'YYYY-MM-DD' string: the calendar day
to_datetime(s) ==
    <<Number(SubSeq(s, 1, 4)), Number(SubSeq(s, 6, 7)), Number(SubSeq(s, 9, 10))>>

\* the date strings of the model: those of the statements and the year and
\* quarter boundaries of the fiscal years
DateStrings ==
    {l.date : l \in AllLines}
    \cup {ToString(y) \o md : y \in {fy - 1 : fy \in FiscalYears} \cup FiscalYears,
            md \in {"-12-01", "-02-28", "-02-29", "-03-01", "-05-31",
                     "-06-01", "-08-31", "-09-01", "-11-30"}}

\* to_datetime is a pure function of the string: its value for each date
\* string of the model, computed once
to_datetime_memo == [s \in DateStrings |-> to_datetime(s)]

\* Timestamp <= Timestamp
NotAfter(a, b) ==
    \/ a[1] < b[1]
    \/ a[1] = b[1] /\ a[2] < b[2]
    \/ a[1] = b[1] /\ a[2] = b[2] /\ a[3] <= b[3]

\* a date of None (or an empty string) is falsy and filters nothing
NoDate == ""

\* date_filter with the end date itself left out
date_filter_before_end(df, start_date, end_date) ==
    LET from_start ==
            IF start_date # NoDate
            THEN {i \in Rows(df) :
                    NotAfter(to_datetime_memo[start_date], to_datetime_memo[df[i].date])}
            ELSE Rows(df)
        to_end ==
            IF end_date # NoDate
            THEN {i \in from_start :
                    /\ NotAfter(to_datetime_memo[df[i].date], to_datetime_memo[end_date])
                    /\ to_datetime_memo[df[i].date] # to_datetime_memo[end_date]}
            ELSE from_start
    IN  Select(df, to_end, 1)

\* the two date filters at the head of calculate_period
date_filter(df, start_date, end_date) ==
    LET from_start ==
            IF start_date # NoDate
            THEN {i \in Rows(df) :
                    NotAfter(to_datetime_memo[start_date], to_datetime_memo[df[i].date])}
            ELSE Rows(df)
        to_end ==
            IF end_date # NoDate
            THEN {i \in from_start :
                    NotAfter(to_datetime_memo[df[i].date], to_datetime_memo[end_date])}
            ELSE from_start
    IN  Select(df, to_end, 1)

\* calculate_period(df, start_date, end_date)
calculate_period_between(df, start_date, end_date) ==
    calculate_period(date_filter(df, start_date, end_date))

\* QuarterlyGSTCalculator
get_quarter_dates(fiscal_year, quarter) ==
    CASE quarter = 1 ->
            <<ToString(fiscal_year - 1) \o "-12-01",
              IF /\ fiscal_year % 4 = 0
                 /\ (fiscal_year % 100 # 0 \/ fiscal_year % 400 = 0)
              THEN ToString(fiscal_year) \o "-02-29"
              ELSE ToString(fiscal_year) \o "-02-28">>
      [] quarter = 2 ->
            <<ToString(fiscal_year) \o "-03-01", ToString(fiscal_year) \o "-05-31">>
      [] quarter = 3 ->
            <<ToString(fiscal_year) \o "-06-01", ToString(fiscal_year) \o "-08-31">>
      [] quarter = 4 ->
            <<ToString(fiscal_year) \o "-09-01", ToString(fiscal_year) \o "-11-30">>

calculate_quarter(df, fiscal_year, quarter) ==
    LET dates == get_quarter_dates(fiscal_year, quarter) IN
    calculate_period_between(df, dates[1], dates[2])

(***************************************************************************)
(* helpers/report_generator.py                                             *)
(***************************************************************************)
\* generate_gst_working_papers, part 3: the net figure and its line
generate_gst_working_papers(gst_summary) ==
    LET net == gst_summary.gst_collected - gst_summary.total_itc IN
    [net |-> net,
     line |-> IF net > 0 THEN "NET GST OWING (Line 109)"
              ELSE "NET GST REFUND (Line 114)"]

(***************************************************************************)
(* Reports on a classified statement                                       *)
(***************************************************************************)
abs(x) == IF x < 0 THEN 0 - x ELSE x

\* app.py load_cibc_csv: debit and credit are stored without their sign
load_cibc_csv(parsed) ==
    [i \in 1..Len(parsed) |->
        [parsed[i] EXCEPT !.debit = abs(@), !.credit = abs(@)]]

\* df.groupby('cra_category') on the rows of a mask: total, count and ITC of
\* each category that has a row
GroupByCategory(df, mask) ==
    [c \in {df[i].cra_category : i \in mask} |->
        LET rows == {i \in mask : df[i].cra_category = c} IN
        [total |-> SumOver(df, rows, "debit"),
         count |-> Cardinality(rows),
         itc |-> SumOver(df, rows, "itc_amount")]]

\* ReportGenerator.generate_expense_schedule
generate_expense_schedule(df) ==
    GroupByCategory(df, {i \in Rows(df) : df[i].debit > 0 /\ df[i].is_personal = FALSE})

\* the keys of expense_categories in generate_income_statement
INCOME_STATEMENT_CATEGORIES == <<
    "Fuel & Petroleum", "Vehicle Repairs & Maintenance", "Equipment & Supplies",
    "Subcontractor Payments", "Office Expenses", "Professional Fees",
    "Insurance", "Bank Charges & Interest", "Telephone & Communications",
    "Meals & Entertainment (50%)", "Travel", "Rent", "Utilities",
    "Wages & Salaries", "Other Expense"
>>

\* ReportGenerator.generate_income_statement with no start_date and no
\* end_date: the figures of the report
generate_income_statement(df) ==
    LET revenue == SumOver(df, {i \in Rows(df) :
                        df[i].cra_category \in {"Revenue - Oilfield Services"}}, "credit")
        expense_categories ==
            [k \in 1..Len(INCOME_STATEMENT_CATEGORIES) |->
                SumOver(df, {i \in Rows(df) :
                    /\ df[i].cra_category = INCOME_STATEMENT_CATEGORIES[k]
                    /\ df[i].is_personal = FALSE}, "debit")]
        total_expenses == SeqSum(expense_categories)
    IN  [revenue |-> revenue, expense_categories |-> expense_categories,
         total_expenses |-> total_expenses,
         net_income |-> revenue - total_expenses]

\* export_accountant.py _build_expense_breakdown
build_expense_breakdown(df) ==
    GroupByCategory(df, {i \in Rows(df) : df[i].debit > 0})

\* the sum of info['total'] over the breakdown
RECURSIVE SumTotals(_, _)
SumTotals(breakdown, cats) ==
    IF cats = {} THEN 0
    ELSE LET c == CHOOSE x \in cats : TRUE
         IN  breakdown[c].total + SumTotals(breakdown, cats \ {c})

SumAmounts(expenses) == SeqSum([i \in 1..Len(expenses) |-> expenses[i].amount])

\* generate_pdf, sections 2 and 6: the expense breakdown, its total and the
\* shareholder income split; the shares are in hundredths of a cent
export_income_split(df, expenses) ==
    LET exp == build_expense_breakdown(df)
        total_exp == SumTotals(exp, DOMAIN exp)
        grand_total == SumOver(df, {i \in Rows(df) : df[i].credit > 0}, "credit")
        net_income == grand_total - total_exp - SumAmounts(expenses)
    IN  [exp |-> exp, total_exp |-> total_exp, net_income |-> net_income,
         greg |-> net_income * 51, lilibeth |-> net_income * 49]

\* app.py page "Shareholders": the income split
shareholders_page(df) ==
    LET revenue == SumOver(df, {i \in Rows(df) : df[i].credit > 0}, "credit")
        total_expenses == SumOver(df, {i \in Rows(df) : df[i].debit > 0}, "debit")
        cash_total == SumAmounts(cash_expenses)
        personal_total == SumAmounts(personal_expenses)
        other_total == 0
        net_income == revenue - total_expenses - cash_total - personal_total - other_total
    IN  [revenue |-> revenue, total_expenses |-> total_expenses,
         net_income |-> net_income,
         greg_share |-> net_income * 51, lili_share |-> net_income * 49]

\* app.py page "Summary"
summary_page(df) ==
    LET revenue == SumOver(df, {i \in Rows(df) : df[i].credit > 0}, "credit")
        bank_expenses == SumOver(df, {i \in Rows(df) : df[i].debit > 0}, "debit")
        all_expenses == bank_expenses + SumAmounts(cash_expenses)
                            + SumAmounts(personal_expenses) + 0
    IN  [revenue |-> revenue, bank_expenses |-> bank_expenses,
         net |-> revenue - all_expenses,
         exp_by_cat |-> GroupByCategory(df, {i \in Rows(df) : df[i].debit > 0})]

(***************************************************************************)
(* DividendTracker and T5Generator; amounts in hundredths of a cent         *)
(***************************************************************************)
\* DividendTracker._calculate_t5_taxable
calculate_t5_taxable(amount, dividend_type) ==
    IF dividend_type = "eligible"
    THEN (amount \div 100) * 138
    ELSE (amount \div 100) * 115

\* the dict DividendTracker.declare_dividend builds, appends and returns
declare_dividend(total_amount, declaration_date, payment_date, dividend_type) ==
    LET greg_amount == total_amount * 49
        lili_amount == total_amount * 51
    IN  [declaration_date |-> declaration_date, payment_date |-> payment_date,
         type |-> dividend_type, total_amount |-> total_amount,
         greg_amount |-> greg_amount, lilibeth_amount |-> lili_amount,
         greg_t5_taxable |-> calculate_t5_taxable(greg_amount, dividend_type),
         lilibeth_t5_taxable |-> calculate_t5_taxable(lili_amount, dividend_type)]

\* T5Generator.generate_t5
generate_t5(total_dividends) ==
    LET greg_amt == total_dividends * 51
        lili_amt == total_dividends * 49
        greg_grossup == (greg_amt \div 100) * 38
        lili_grossup == (lili_amt \div 100) * 38
    IN  <<[name |-> "Gregory MacDonald", ownership |-> "51%",
           actual_dividend |-> greg_amt, grossup |-> greg_grossup,
           taxable |-> greg_amt + greg_grossup],
          [name |-> "Lilibeth Sejera", ownership |-> "49%",
           actual_dividend |-> lili_amt, grossup |-> lili_grossup,
           taxable |-> lili_amt + lili_grossup]>>

(***************************************************************************)
(* helpers/shareholder_tracker.py: ShareholderTracker                       *)
(*                                                                         *)
(* The tracker's amounts are hundredths of a cent, so that 49% and 51% of   *)
(* an amount of whole cents are exact.                                      *)
(***************************************************************************)
GREG_PCT == 49

LILIBETH_PCT == 51

\* an amount of whole cents, in hundredths of a cent
Money(cents) == cents * (GREG_PCT + LILIBETH_PCT)

\* the amounts given to set_opening_balances, add_shareholder_contribution and
\* record_dividend
OpeningBalances == {0, Money(10000)}

ContributionAmount == Money(5000)

DividendAmount == Money(20000)

\* ShareholderTracker.__init__
ShareholderTracker_init ==
    [greg_opening |-> 0, lilibeth_opening |-> 0,
     greg_transactions |-> <<>>, lilibeth_transactions |-> <<>>,
     greg_withdrawals |-> 0, greg_personal |-> 0,
     lilibeth_withdrawals |-> 0, lilibeth_personal |-> 0]

\* the patterns, upper-cased (they are searched with re.IGNORECASE); each is
\* its alternatives, an alternative the literals that .* joins; \d+ is one
\* digit, which is what a search for one or more digits needs
GREG_TRANSFER_PATTERNS == <<
    <<<<"INTERNET TRANSFER", "TO:", "00099", "78-83439">>>>,
    [d \in 1..10 |-> <<"INTERNET TRANSFER", "000000" \o ToString(d - 1), "TO:">>]
>>

LILIBETH_TRANSFER_PATTERNS == <<
    <<<<"E-TRANSFER", "LILIBETH SEJERA">>>>,
    <<<<"E-TRANSFER", "LILIBETH">>>>
>>

PERSONAL_EXPENSE_PATTERNS == <<
    [pattern |-> <<<<"LIQUOR">>, <<"WINE">>, <<"CANNABIS">>, <<"GREEN SOLUTION">>>>,
     category |-> "Personal - Alcohol/Cannabis"],
    [pattern |-> <<<<"IKEA">>>>, category |-> "Personal - Furniture"],
    [pattern |-> <<<<"LITTLE STEPS">>, <<"DAYCARE">>>>,
     category |-> "Personal - Childcare"],
    [pattern |-> <<<<"IGA">>, <<"GROCERY">>, <<"SUPERMARKET">>, <<"SAFEWAY">>>>,
     category |-> "Personal - Groceries"],
    [pattern |-> <<<<"RESTAURANT">>, <<"PIZZA">>, <<"BUFFET">>, <<"STEAK">>>>,
     category |-> "Personal - Dining (non-business)"],
    [pattern |-> <<<<"VALUE VILLAGE">>, <<"GOODWILL">>>>,
     category |-> "Personal - Clothing"],
    [pattern |-> <<<<"BARBER">>, <<"SALON">>, <<"NAILS">>>>,
     category |-> "Personal - Grooming"]
>>

\* the searches of the tracker are pure functions of the description: their
\* values for each description of the model, computed once
tracker_search_memo ==
    [d \in AllDescriptions |->
        LET u == upper(d) IN
        [greg |-> \E p \in 1..Len(GREG_TRANSFER_PATTERNS) :
                    re_search(GREG_TRANSFER_PATTERNS[p], u),
         lilibeth |-> \E p \in 1..Len(LILIBETH_TRANSFER_PATTERNS) :
                    re_search(LILIBETH_TRANSFER_PATTERNS[p], u),
         atm |-> Contains(u, "ATM WITHDRAWAL") \/ Contains(u, "ABM WITHDRAWAL"),
         personal |-> [p \in 1..Len(PERSONAL_EXPENSE_PATTERNS) |->
                    re_search(PERSONAL_EXPENSE_PATTERNS[p].pattern, u)]]]

greg_balance(t) == t.greg_opening - t.greg_withdrawals - t.greg_personal

lilibeth_balance(t) == t.lilibeth_opening - t.lilibeth_withdrawals - t.lilibeth_personal

\* the first loop of process_transfers from row i on: a row whose description
\* one of the shareholder's patterns finds, with a debit, is a withdrawal
RECURSIVE transfer_loop(_, _, _, _)
transfer_loop(t, df, shareholder, i) ==
    IF i > Len(df) THEN t
    ELSE
        LET row == df[i]
            found == IF shareholder = "Greg"
                     THEN tracker_search_memo[row.description].greg
                     ELSE tracker_search_memo[row.description].lilibeth
            amount == Money(row.debit)
            txn == [date |-> row.date, description |-> row.description,
                    type |-> "Distribution/Withdrawal", amount |-> amount,
                    source |-> "Corporate Account"]
            next == IF found /\ amount > 0
                    THEN IF shareholder = "Greg"
                         THEN [t EXCEPT
                                !.greg_transactions = Append(@, txn),
                                !.greg_withdrawals = @ + amount]
                         ELSE [t EXCEPT
                                !.lilibeth_transactions = Append(@, txn),
                                !.lilibeth_withdrawals = @ + amount]
                    ELSE t
        IN  transfer_loop(next, df, shareholder, i + 1)

\* the second loop of process_transfers from row i on: the ATM withdrawals
RECURSIVE atm_loop(_, _, _)
atm_loop(t, df, i) ==
    IF i > Len(df) THEN t
    ELSE
        LET row == df[i]
            amount == Money(row.debit)
            txn == [date |-> row.date, description |-> row.description,
                    type |-> "Cash Withdrawal (ATM)", amount |-> amount,
                    source |-> "Corporate Account",
                    note |-> "Review: Assign to correct shareholder"]
            next == IF tracker_search_memo[row.description].atm /\ amount > 0
                    THEN [t EXCEPT !.greg_transactions = Append(@, txn),
                                   !.greg_withdrawals = @ + amount]
                    ELSE t
        IN  atm_loop(next, df, i + 1)

process_transfers(t, df, shareholder) ==
    atm_loop(transfer_loop(t, df, shareholder, 1), df, 1)

\* the allocation of one personal expense between the two shareholders
allocate_personal(t, row, category) ==
    LET greg_portion == row.debit * GREG_PCT
        lili_portion == row.debit * LILIBETH_PCT
        txn(portion) ==
            [date |-> row.date, description |-> row.description,
             type |-> "Personal Expense - " \o category, amount |-> portion,
             source |-> "Corporate Account",
             note |-> "Allocated by ownership % - verify assignment"]
    IN  [t EXCEPT !.greg_transactions = Append(@, txn(greg_portion)),
                  !.greg_personal = @ + greg_portion,
                  !.lilibeth_transactions = Append(@, txn(lili_portion)),
                  !.lilibeth_personal = @ + lili_portion]

\* pattern_loop without its break: every pattern that finds the description
\* allocates the expense
RECURSIVE pattern_loop_no_break(_, _, _)
pattern_loop_no_break(t, row, p) ==
    IF p > Len(PERSONAL_EXPENSE_PATTERNS) THEN t
    ELSE IF tracker_search_memo[row.description].personal[p]
    THEN pattern_loop_no_break(
            allocate_personal(t, row, PERSONAL_EXPENSE_PATTERNS[p].category), row, p + 1)
    ELSE pattern_loop_no_break(t, row, p + 1)

\* the loop over PERSONAL_EXPENSE_PATTERNS for one row, from pattern p on
RECURSIVE pattern_loop(_, _, _)
pattern_loop(t, row, p) ==
    IF p > Len(PERSONAL_EXPENSE_PATTERNS) THEN t
    ELSE IF tracker_search_memo[row.description].personal[p]
    THEN allocate_personal(t, row, PERSONAL_EXPENSE_PATTERNS[p].category)
    ELSE pattern_loop(t, row, p + 1)

\* process_personal_expenses from row i on
RECURSIVE personal_loop(_, _, _)
personal_loop(t, df, i) ==
    IF i > Len(df) THEN t
    ELSE IF df[i].debit = 0
    THEN personal_loop(t, df, i + 1)
    ELSE personal_loop(pattern_loop(t, df[i], 1), df, i + 1)

process_personal_expenses(t, df) == personal_loop(t, df, 1)

set_opening_balances(t, greg, lilibeth) ==
    [t EXCEPT !.greg_opening = greg, !.lilibeth_opening = lilibeth]

add_shareholder_contribution(t, shareholder, amount, date, description) ==
    LET txn == [date |-> date, description |-> description,
                type |-> "Shareholder Contribution", amount |-> 0 - amount,
                source |-> "Manual Entry"]
    IN  IF shareholder = "Greg"
        THEN [t EXCEPT !.greg_transactions = Append(@, txn),
                       !.greg_withdrawals = @ - amount]
        ELSE [t EXCEPT !.lilibeth_transactions = Append(@, txn),
                       !.lilibeth_withdrawals = @ - amount]

record_dividend(t, shareholder, amount, date, resolution_date) ==
    LET txn == [date |-> date,
                description |-> "Dividend per resolution dated " \o resolution_date,
                type |-> "Dividend", amount |-> amount,
                source |-> "Manual Entry",
                note |-> "Creates T5 reporting requirement"]
    IN  IF shareholder = "Greg"
        THEN [t EXCEPT !.greg_transactions = Append(@, txn)]
        ELSE [t EXCEPT !.lilibeth_transactions = Append(@, txn)]

\* check_taxable_benefit_risk with `<= 0` for `< 0`
check_taxable_benefit_risk_at_zero(t) ==
    LET issue(name, balance) ==
            [shareholder |-> name,
             amount_owing |-> IF balance < 0 THEN 0 - balance ELSE balance,
             deadline |-> "November 30 of following year"]
    IN  (IF greg_balance(t) <= 0
         THEN <<issue("Greg Chicken", greg_balance(t))>> ELSE <<>>)
        \o (IF lilibeth_balance(t) <= 0
            THEN <<issue("Lilibeth Sejera", lilibeth_balance(t))>> ELSE <<>>)

check_taxable_benefit_risk(t) ==
    LET issue(name, balance) ==
            [shareholder |-> name,
             amount_owing |-> IF balance < 0 THEN 0 - balance ELSE balance,
             deadline |-> "November 30 of following year"]
    IN  (IF greg_balance(t) < 0
         THEN <<issue("Greg Chicken", greg_balance(t))>> ELSE <<>>)
        \o (IF lilibeth_balance(t) < 0
            THEN <<issue("Lilibeth Sejera", lilibeth_balance(t))>> ELSE <<>>)

\* generate_year_end_report with the closing balance taken before the
\* personal expenses
generate_year_end_report_before_personal(t, fiscal_year_end) ==
    [fiscal_year_end |-> fiscal_year_end,
     greg |-> [opening_balance |-> t.greg_opening,
               withdrawals |-> t.greg_withdrawals,
               personal_expenses |-> t.greg_personal,
               closing_balance |-> t.greg_opening - t.greg_withdrawals,
               transactions |-> t.greg_transactions,
               status |-> IF greg_balance(t) >= 0 THEN "OK"
                          ELSE "OWING - Taxable Benefit Risk"],
     lilibeth |-> [opening_balance |-> t.lilibeth_opening,
               withdrawals |-> t.lilibeth_withdrawals,
               personal_expenses |-> t.lilibeth_personal,
               closing_balance |-> t.lilibeth_opening - t.lilibeth_withdrawals,
               transactions |-> t.lilibeth_transactions,
               status |-> IF lilibeth_balance(t) >= 0 THEN "OK"
                          ELSE "OWING - Taxable Benefit Risk"]]

generate_year_end_report(t, fiscal_year_end) ==
    [fiscal_year_end |-> fiscal_year_end,
     greg |-> [opening_balance |-> t.greg_opening,
               withdrawals |-> t.greg_withdrawals,
               personal_expenses |-> t.greg_personal,
               closing_balance |-> greg_balance(t),
               transactions |-> t.greg_transactions,
               status |-> IF greg_balance(t) >= 0 THEN "OK"
                          ELSE "OWING - Taxable Benefit Risk"],
     lilibeth |-> [opening_balance |-> t.lilibeth_opening,
               withdrawals |-> t.lilibeth_withdrawals,
               personal_expenses |-> t.lilibeth_personal,
               closing_balance |-> lilibeth_balance(t),
               transactions |-> t.lilibeth_transactions,
               status |-> IF lilibeth_balance(t) >= 0 THEN "OK"
                          ELSE "OWING - Taxable Benefit Risk"]]

(***************************************************************************)
(* The session                                                             *)
(***************************************************************************)
Init ==
    /\ corporate_df = None
    /\ classified_df = None
    /\ view = NoView
    /\ cash_expenses = <<>>
    /\ personal_expenses = <<>>
    /\ tracker = ShareholderTracker_init
    /\ dividends = <<>>

\* page "Upload & Process": a CSV is uploaded, stored and classified at once
Upload(df) ==
    /\ df # None
    /\ corporate_df' = df
    /\ classified_df' = classify_dataframe(df)
    /\ view' = NoView
    /\ UNCHANGED others

\* "Clear All Bank Data"
ClearBankData ==
    /\ corporate_df # None
    /\ corporate_df' = None
    /\ classified_df' = None
    /\ view' = NoView
    /\ UNCHANGED others

\* "Re-classify All Transactions"
Reclassify ==
    /\ corporate_df # None
    /\ classified_df # None
    /\ classified_df' = classify_dataframe(corporate_df)
    /\ view' = NoView
    /\ UNCHANGED corporate_df
    /\ UNCHANGED others

\* what the data editor can return: every row keeps its category or takes one
\* of the select box
Edited(df) ==
    {e \in [Rows(df) -> EditCategories \cup {df[i].cra_category : i \in Rows(df)}] :
        \A i \in Rows(df) : e[i] \in EditCategories \cup {df[i].cra_category}}

\* "Save All Category Changes" (Upload page) and "Save All Changes" (Revenue
\* page): the two handlers run the same loop over the edited rows
SaveCategoryChanges ==
    /\ classified_df # None
    /\ \E edited \in Edited(classified_df) :
        classified_df' =
            [i \in Rows(classified_df) |-> apply_edit(classified_df[i], edited[i])]
    /\ view' = NoView
    /\ UNCHANGED corporate_df
    /\ UNCHANGED others

\* app_BACKUP.py "Process Statement": the helper classifier on the statement
ProcessStatement ==
    /\ corporate_df # None
    /\ view' = [op |-> "classify_dataframe",
                df |-> TransactionClassifier_classify_dataframe(corporate_df)]
    /\ UNCHANGED <<corporate_df, classified_df>>
    /\ UNCHANGED others

\* app_BACKUP.py page "Revenue": calculate_revenue on the helper's output
CalculateRevenue ==
    /\ corporate_df # None
    /\ LET df == TransactionClassifier_classify_dataframe(corporate_df) IN
       view' = [op |-> "calculate_revenue", df |-> df, rev |-> calculate_revenue(df)]
    /\ UNCHANGED <<corporate_df, classified_df>>
    /\ UNCHANGED others

\* app_BACKUP.py pages "GST Filing" and "Summary": GSTCalculator.calculate_period
CalculatePeriod ==
    /\ corporate_df # None
    /\ LET df == TransactionClassifier_classify_dataframe(corporate_df) IN
       view' = [op |-> "calculate_period", df |-> df, gst |-> calculate_period(df)]
    /\ UNCHANGED <<corporate_df, classified_df>>
    /\ UNCHANGED others

\* app.py page "Revenue"
ShowRevenue ==
    /\ classified_df # None
    /\ view' = [op |-> "revenue_page", rev |-> revenue_page(classified_df)]
    /\ UNCHANGED <<corporate_df, classified_df>>
    /\ UNCHANGED others

\* app.py page "GST Filing"
ShowGSTFiling ==
    /\ classified_df # None
    /\ view' = [op |-> "gst_filing_page", gst |-> gst_filing_page(classified_df)]
    /\ UNCHANGED <<corporate_df, classified_df>>
    /\ UNCHANGED others

\* app.py page "Export for Accountant"
ExportForAccountant ==
    /\ classified_df # None
    /\ view' = [op |-> "export", export |-> export_revenue(classified_df),
                cash |-> export_cash_expenses(cash_expenses),
                split |-> export_income_split(classified_df, cash_expenses)]
    /\ UNCHANGED <<corporate_df, classified_df>>
    /\ UNCHANGED others

Next ==
    \/ \E df \in Statements : Upload(df)
    \/ ClearBankData
    \/ Reclassify
    \/ SaveCategoryChanges
    \/ ProcessStatement
    \/ CalculateRevenue
    \/ CalculatePeriod
    \/ ShowRevenue
    \/ ShowGSTFiling
    \/ ExportForAccountant

Spec == Init /\ [][Next]_vars

(***************************************************************************)
(* The GST period of a processed statement                                 *)
(*                                                                         *)
(* app_BACKUP.py stores the helper classifier's rows in classified_df and  *)
(* pickles them in the fiscal year's directory, where app.py finds them:   *)
(* its pages and its save handlers then work on rows that carry            *)
(* is_personal and needs_review.                                           *)
(***************************************************************************)
GstInit ==
    /\ corporate_df \in GstStatements
    /\ classified_df = TransactionClassifier_classify_dataframe(corporate_df)
    /\ view = NoView
    /\ cash_expenses = <<>>
    /\ personal_expenses = <<>>
    /\ tracker = ShareholderTracker_init
    /\ dividends = <<>>

\* app_BACKUP.py page "GST Filing": calculate_period on the stored rows, then
\* the page's own totals and its label
gst_filing_backup(df) ==
    LET gst == calculate_period(df)
        cash_itc ==
            SeqSum([i \in 1..Len(cash_expenses) |->
                        GstInPurchase(Amount(cash_expenses[i].amount))])
        phone_itc == 0
        total_itc == gst.total_itc + cash_itc + phone_itc
        net_gst == gst.gst_collected - total_itc
    IN  [total_itc |-> total_itc, net_gst |-> net_gst,
         label |-> IF net_gst > 0 THEN "NET GST OWING" ELSE "NET GST REFUND"]

CalculatePeriodStored ==
    /\ classified_df # None
    /\ view' = [op |-> "calculate_period", df |-> classified_df,
                gst |-> calculate_period(classified_df),
                page |-> gst_filing_backup(classified_df)]
    /\ UNCHANGED <<corporate_df, classified_df>>
    /\ UNCHANGED others

\* ReportGenerator.generate_gst_working_papers on the summary of the rows
GSTWorkingPapers ==
    /\ classified_df # None
    /\ view' = [op |-> "gst_working_papers",
                gst |-> calculate_period(classified_df),
                papers |-> generate_gst_working_papers(calculate_period(classified_df))]
    /\ UNCHANGED <<corporate_df, classified_df>>
    /\ UNCHANGED others

\* ReportGenerator.generate_expense_schedule on the helper's rows
ExpenseSchedule ==
    /\ corporate_df # None
    /\ LET df == TransactionClassifier_classify_dataframe(corporate_df) IN
       view' = [op |-> "generate_expense_schedule", df |-> df,
                schedule |-> generate_expense_schedule(df)]
    /\ UNCHANGED <<corporate_df, classified_df>>
    /\ UNCHANGED others

\* ReportGenerator.generate_income_statement on the helper's rows
IncomeStatement ==
    /\ corporate_df # None
    /\ LET df == TransactionClassifier_classify_dataframe(corporate_df) IN
       view' = [op |-> "generate_income_statement", df |-> df,
                statement |-> generate_income_statement(df)]
    /\ UNCHANGED <<corporate_df, classified_df>>
    /\ UNCHANGED others

GstNext ==
    \/ SaveCategoryChanges
    \/ CalculatePeriodStored
    \/ ShowGSTFiling
    \/ GSTWorkingPapers
    \/ ExpenseSchedule
    \/ IncomeStatement
    \/ ExportForAccountant

GstSpec == GstInit /\ [][GstNext]_vars

(***************************************************************************)
(* The quarters of a fiscal year                                           *)
(***************************************************************************)
QuarterInit ==
    /\ corporate_df \in QuarterStatements
    /\ classified_df = TransactionClassifier_classify_dataframe(corporate_df)
    /\ view = NoView
    /\ cash_expenses = <<>>
    /\ personal_expenses = <<>>
    /\ tracker = ShareholderTracker_init
    /\ dividends = <<>>

\* QuarterlyGSTCalculator.calculate_quarter(df, fiscal_year, quarter)
CalculateQuarter ==
    /\ classified_df # None
    /\ \E fiscal_year \in FiscalYears, quarter \in 1..4 :
        view' = [op |-> "calculate_quarter",
                 fiscal_year |-> fiscal_year, quarter |-> quarter,
                 gst |-> calculate_quarter(classified_df, fiscal_year, quarter)]
    /\ UNCHANGED <<corporate_df, classified_df>>
    /\ UNCHANGED others

\* calculate_period(df, start_date, end_date) over a whole fiscal year
CalculateFiscalYear ==
    /\ classified_df # None
    /\ \E fiscal_year \in FiscalYears :
        view' = [op |-> "calculate_fiscal_year", fiscal_year |-> fiscal_year,
                 gst |-> calculate_period_between(classified_df,
                            ToString(fiscal_year - 1) \o "-12-01",
                            ToString(fiscal_year) \o "-11-30")]
    /\ UNCHANGED <<corporate_df, classified_df>>
    /\ UNCHANGED others

QuarterNext ==
    \/ CalculateQuarter
    \/ CalculateFiscalYear

QuarterSpec == QuarterInit /\ [][QuarterNext]_vars

(***************************************************************************)
(* The side-channel expense lists                                          *)
(***************************************************************************)
ExpenseInit ==
    /\ corporate_df \in ExpenseStatements
    /\ classified_df = classify_dataframe(corporate_df)
    /\ view = NoView
    /\ cash_expenses = <<>>
    /\ personal_expenses = <<>>
    /\ tracker = ShareholderTracker_init
    /\ dividends = <<>>

\* list.pop(idx)
Pop(list, idx) == SubSeq(list, 1, idx - 1) \o SubSeq(list, idx + 1, Len(list))

\* page "Cash Expenses", form "Add & Save"
AddCashExpense ==
    /\ Len(cash_expenses) < MaxExpenses
    /\ \E entry \in ExpenseEntries :
        /\ entry.amount > 0
        /\ cash_expenses' = Append(cash_expenses, entry)
    /\ view' = NoView
    /\ UNCHANGED <<corporate_df, classified_df, personal_expenses, tracker,
                 dividends>>

\* page "Cash Expenses", "Delete & Save"
DeleteCashExpense ==
    /\ cash_expenses # <<>>
    /\ \E idx \in 1..Len(cash_expenses) : cash_expenses' = Pop(cash_expenses, idx)
    /\ view' = NoView
    /\ UNCHANGED <<corporate_df, classified_df, personal_expenses, tracker,
                 dividends>>

\* page "Personal Bank/CC", form "Add & Save"
AddPersonalExpense ==
    /\ Len(personal_expenses) < MaxExpenses
    /\ \E entry \in ExpenseEntries :
        /\ entry.amount > 0
        /\ personal_expenses' = Append(personal_expenses, entry)
    /\ view' = NoView
    /\ UNCHANGED <<corporate_df, classified_df, cash_expenses, tracker,
                 dividends>>

\* page "Personal Bank/CC", "Delete & Save"
DeletePersonalExpense ==
    /\ personal_expenses # <<>>
    /\ \E idx \in 1..Len(personal_expenses) :
        personal_expenses' = Pop(personal_expenses, idx)
    /\ view' = NoView
    /\ UNCHANGED <<corporate_df, classified_df, cash_expenses, tracker,
                 dividends>>

\* page "Cash Expenses": the recorded expenses and their ITCs
ShowCashExpenses ==
    /\ cash_expenses # <<>>
    /\ view' = [op |-> "cash_expenses_page", page |-> expense_page(cash_expenses)]
    /\ UNCHANGED <<corporate_df, classified_df>>
    /\ UNCHANGED others

\* page "Personal Bank/CC": the recorded expenses and their ITCs
ShowPersonalExpenses ==
    /\ personal_expenses # <<>>
    /\ view' = [op |-> "personal_expenses_page",
                page |-> expense_page(personal_expenses)]
    /\ UNCHANGED <<corporate_df, classified_df>>
    /\ UNCHANGED others

ExpenseNext ==
    \/ AddCashExpense
    \/ DeleteCashExpense
    \/ AddPersonalExpense
    \/ DeletePersonalExpense
    \/ ShowCashExpenses
    \/ ShowPersonalExpenses
    \/ ShowGSTFiling
    \/ ExportForAccountant

ExpenseSpec == ExpenseInit /\ [][ExpenseNext]_vars

(***************************************************************************)
(* The shareholder tracker                                                 *)
(***************************************************************************)
TrackerInit ==
    /\ corporate_df = None
    /\ classified_df = None
    /\ view = NoView
    /\ cash_expenses = <<>>
    /\ personal_expenses = <<>>
    /\ tracker = ShareholderTracker_init
    /\ dividends = <<>>

\* the transactions recorded so far, of both shareholders
TxnCount(t) == Len(t.greg_transactions) + Len(t.lilibeth_transactions)

SetOpeningBalances ==
    /\ \E greg \in OpeningBalances, lilibeth \in OpeningBalances :
        tracker' = set_opening_balances(tracker, greg, lilibeth)
    /\ view' = [op |-> "set_opening_balances"]
    /\ UNCHANGED <<corporate_df, classified_df, cash_expenses, personal_expenses,
                 dividends>>

ProcessTransfers ==
    /\ TxnCount(tracker) < MaxTxns
    /\ \E df \in TrackerFrames, shareholder \in Shareholders :
        /\ tracker' = process_transfers(tracker, df, shareholder)
        /\ view' = [op |-> "process_transfers", df |-> df,
                    shareholder |-> shareholder]
    /\ UNCHANGED <<corporate_df, classified_df, cash_expenses, personal_expenses,
                 dividends>>

ProcessPersonalExpenses ==
    /\ TxnCount(tracker) < MaxTxns
    /\ \E df \in TrackerFrames :
        /\ tracker' = process_personal_expenses(tracker, df)
        /\ view' = [op |-> "process_personal_expenses", df |-> df]
    /\ UNCHANGED <<corporate_df, classified_df, cash_expenses, personal_expenses,
                 dividends>>

AddShareholderContribution ==
    /\ TxnCount(tracker) < MaxTxns
    /\ \E shareholder \in Shareholders :
        tracker' = add_shareholder_contribution(tracker, shareholder,
                        ContributionAmount, "2025-04-01", "Cash injection")
    /\ view' = [op |-> "add_shareholder_contribution"]
    /\ UNCHANGED <<corporate_df, classified_df, cash_expenses, personal_expenses,
                 dividends>>

RecordDividend ==
    /\ TxnCount(tracker) < MaxTxns
    /\ \E shareholder \in Shareholders :
        tracker' = record_dividend(tracker, shareholder, DividendAmount,
                        "2025-11-30", "2025-11-15")
    /\ view' = [op |-> "record_dividend"]
    /\ UNCHANGED <<corporate_df, classified_df, cash_expenses, personal_expenses,
                 dividends>>

GenerateYearEndReport ==
    /\ \E fiscal_year_end \in FiscalYearEnds :
        view' = [op |-> "generate_year_end_report",
                 report |-> generate_year_end_report(tracker, fiscal_year_end)]
    /\ UNCHANGED <<corporate_df, classified_df>>
    /\ UNCHANGED others

CheckTaxableBenefitRisk ==
    /\ view' = [op |-> "check_taxable_benefit_risk",
                issues |-> check_taxable_benefit_risk(tracker)]
    /\ UNCHANGED <<corporate_df, classified_df>>
    /\ UNCHANGED others

TrackerNext ==
    \/ SetOpeningBalances
    \/ ProcessTransfers
    \/ ProcessPersonalExpenses
    \/ AddShareholderContribution
    \/ RecordDividend
    \/ GenerateYearEndReport
    \/ CheckTaxableBenefitRisk

TrackerSpec == TrackerInit /\ [][TrackerNext]_vars

(***************************************************************************)
(* Reports and pages on one statement                                      *)
(***************************************************************************)
ReportInit ==
    /\ corporate_df \in ReportStatements
    /\ classified_df = None
    /\ view = NoView
    /\ cash_expenses = <<>>
    /\ personal_expenses = <<>>
    /\ tracker = ShareholderTracker_init
    /\ dividends = <<>>

\* app.py "Upload & Process" of the statement's CSV file
UploadCsv == Upload(load_cibc_csv(corporate_df))

\* app.py page "Shareholders"
ShowShareholders ==
    /\ classified_df # None
    /\ view' = [op |-> "shareholders_page", page |-> shareholders_page(classified_df)]
    /\ UNCHANGED <<corporate_df, classified_df>>
    /\ UNCHANGED others

\* app.py page "Summary"
ShowSummary ==
    /\ classified_df # None
    /\ view' = [op |-> "summary_page", page |-> summary_page(classified_df)]
    /\ UNCHANGED <<corporate_df, classified_df>>
    /\ UNCHANGED others

\* DividendTracker.declare_dividend
DeclareDividend ==
    /\ Len(dividends) < MaxDividends
    /\ \E total_amount \in DividendTotals :
        LET dividend == declare_dividend(total_amount, "2025-11-15", "2025-11-30",
                                        "non-eligible")
        IN  /\ dividends' = Append(dividends, dividend)
            /\ view' = [op |-> "declare_dividend", dividend |-> dividend]
    /\ UNCHANGED <<corporate_df, classified_df, cash_expenses, personal_expenses,
                   tracker>>

\* T5Generator.generate_t5
GenerateT5 ==
    /\ \E total_dividends \in DividendTotals :
        view' = [op |-> "generate_t5", total_dividends |-> total_dividends,
                 t5 |-> generate_t5(total_dividends)]
    /\ UNCHANGED <<corporate_df, classified_df>>
    /\ UNCHANGED others

ReportNext ==
    \/ UploadCsv
    \/ ProcessStatement
    \/ CalculatePeriod
    \/ ShowRevenue
    \/ ShowGSTFiling
    \/ ShowShareholders
    \/ ShowSummary
    \/ ExportForAccountant
    \/ DeclareDividend
    \/ GenerateT5

ReportSpec == ReportInit /\ [][ReportNext]_vars

(***************************************************************************)
(* What the claims speak of                                                *)
(***************************************************************************)
Min(S) == CHOOSE x \in S : \A y \in S : x <= y

\* the rules of CLASSIFICATION_RULES whose pattern is found in the description
MatchingRules ==
    [d \in AllDescriptions |->
        {i \in 1..Len(CLASSIFICATION_RULES) :
            re_search(CLASSIFICATION_RULES[i].pattern, upper(d))}]

GovernmentCanada ==
    [d \in AllDescriptions |-> Contains(upper(d), "GOVERNMENT CANADA")]

\* the entries of CRA_CATEGORIES one of whose keywords is in the description
MatchingCategories ==
    [d \in AllDescriptions |->
        {c \in 1..Len(CRA_CATEGORIES) :
            \E k \in 1..Len(CRA_CATEGORIES[c].keywords) :
                Contains(upper(d), CRA_CATEGORIES[c].keywords[k])}]

MatchesRevenue ==
    [d \in AllDescriptions |->
        \E k \in 1..Len(REVENUE_KEYWORDS) : Contains(upper(d), REVENUE_KEYWORDS[k])]

\* the rows the helper classifier returned, when that is what view holds
HelperRows == IF view.op = "classify_dataframe" THEN view.df ELSE <<>>

\* the rows app.py's classify_dataframe gives for the stored statement (what
\* Upload and Reclassify store in classified_df)
AppRows == classify_dataframe(corporate_df)

Unedited == classified_df = classify_dataframe(corporate_df)

\* the embedded GST of a debit, debit * 0.05 / 1.05
EmbeddedGst(debit) == GstInPurchase(Amount(debit))

\* the app's first matching rule: its category and rate
AppFirstMatch(d) ==
    IF MatchesRevenue[d] THEN [cat |-> "Revenue", pct |-> 0]
    ELSE LET c == CRA_CATEGORIES[Min(MatchingCategories[d])]
         IN  [cat |-> c.name, pct |-> c.itc_pct]

AppMatched(d) == MatchesRevenue[d] \/ MatchingCategories[d] # {}

(***************************************************************************)
(* C1.  The classifier returns the category of the first rule, in table    *)
(* order, whose pattern matches the uppercase description; a later         *)
(* matching rule never decides (TransactionClassifier over                 *)
(* CLASSIFICATION_RULES, app.py over REVENUE_KEYWORDS then CRA_CATEGORIES).*)
(***************************************************************************)
HelperFirstMatch(row) ==
    MatchingRules[row.description] # {} =>
        row.cra_category =
            CLASSIFICATION_RULES[Min(MatchingRules[row.description])].category

AppFirstMatchWins ==
    \A i \in Rows(AppRows) :
        AppMatched(AppRows[i].description) =>
            AppRows[i].cra_category = AppFirstMatch(AppRows[i].description).cat

\* C1 as stated: for every description
C1_FirstMatchingRule ==
    /\ \A i \in Rows(HelperRows) : HelperFirstMatch(HelperRows[i])
    /\ AppFirstMatchWins

\* C1 amended: TransactionClassifier decides a description that contains
\* GOVERNMENT CANADA before it consults the table (GST Refund for a credit,
\* Income Tax Installment otherwise), whatever rule the description also
\* matches; every other description gets its first matching rule's category.
C1_FirstMatchingRuleAmended ==
    /\ \A i \in Rows(HelperRows) :
        LET row == HelperRows[i] IN
        IF GovernmentCanada[row.description]
        THEN row.cra_category =
                IF row.credit > 0 THEN "GST Refund" ELSE "Income Tax Installment"
        ELSE HelperFirstMatch(row)
    /\ AppFirstMatchWins

\* a description two rules of different categories match, in both classifiers
C1_Witness ==
    /\ \E i \in Rows(HelperRows) :
        LET m == MatchingRules[HelperRows[i].description] IN
        /\ ~GovernmentCanada[HelperRows[i].description]
        /\ \E a, b \in m : CLASSIFICATION_RULES[a].category #
                            CLASSIFICATION_RULES[b].category
        /\ HelperRows[i].cra_category = CLASSIFICATION_RULES[Min(m)].category
    /\ Unedited
    /\ \E i \in Rows(classified_df) :
        /\ ~MatchesRevenue[classified_df[i].description]
        /\ Cardinality(MatchingCategories[classified_df[i].description]) > 1

(***************************************************************************)
(* C2.  A transaction whose description matches no rule is classified as   *)
(* the Uncategorized/Other sentinel with needs_review = true and           *)
(* itc_amount = 0, for any debit and credit.                               *)
(***************************************************************************)
Sentinels == {"Uncategorized", "Other", "Other Expense", "Other / Unclassified"}

IsUncategorized(row) ==
    /\ row.cra_category \in Sentinels
    /\ row.itc_amount = 0

C2_UnmatchedIsUncategorized ==
    /\ \A i \in Rows(HelperRows) :
        (/\ MatchingRules[HelperRows[i].description] = {}
         /\ ~GovernmentCanada[HelperRows[i].description])
            => IsUncategorized(HelperRows[i]) /\ HelperRows[i].needs_review = TRUE
    \* app.py keeps no needs_review column; its rows are held to the rest
    /\ \A i \in Rows(AppRows) :
        ~AppMatched(AppRows[i].description) => IsUncategorized(AppRows[i])

(***************************************************************************)
(* C3.  With debit > 0 and an ITC-eligible, non-personal rule matched,     *)
(* itc_amount = debit * 0.05/1.05 * itc_rate rounded to 2 decimal places;  *)
(* for a personal or non-eligible rule, or debit = 0, itc_amount is 0.     *)
(***************************************************************************)
HelperExpectedItc(row) ==
    LET rule == CLASSIFICATION_RULES[Min(MatchingRules[row.description])]
        info == CATEGORIES[rule.category]
    IN  IF info.itc_eligible /\ ~rule.is_personal /\ row.debit > 0
        THEN round2(TimesPct(EmbeddedGst(row.debit), info.itc_rate))
        ELSE 0

AppExpectedItc(row) ==
    round2(TimesPct(EmbeddedGst(row.debit), AppFirstMatch(row.description).pct))

C3_ItcRoundedToCents ==
    /\ \A i \in Rows(HelperRows) :
        (/\ MatchingRules[HelperRows[i].description] # {}
         /\ ~GovernmentCanada[HelperRows[i].description])
            => HelperRows[i].itc_amount = HelperExpectedItc(HelperRows[i])
    /\ \A i \in Rows(AppRows) :
        AppMatched(AppRows[i].description)
            => AppRows[i].itc_amount = AppExpectedItc(AppRows[i])

(***************************************************************************)
(* C4.  For every classified transaction, after classification and after   *)
(* any sequence of manual overrides, 0 <= itc_amount <= debit * 0.05/1.05. *)
(***************************************************************************)
WithinEmbeddedGst(row) ==
    0 <= row.itc_amount /\ row.itc_amount <= EmbeddedGst(row.debit)

C5_OverrideUsesDeclaredRate ==
    \A i \in Rows(classified_df) :
        classified_df[i].cra_category \in DOMAIN ITC_RATES =>
            classified_df[i].itc_amount =
                TimesPct(EmbeddedGst(classified_df[i].debit),
                         ITC_RATES[classified_df[i].cra_category])

(***************************************************************************)
(* C6.  Batch classification is idempotent: classifying an already         *)
(* classified set again, with no manual override in between, gives the     *)
(* same rows, categories, flags and ITC amounts.                           *)
(***************************************************************************)
C6_ClassifyIdempotent ==
    /\ view.op = "classify_dataframe" =>
        TransactionClassifier_classify_dataframe(view.df) = view.df
    /\ (classified_df # None /\ Unedited) =>
        classify_dataframe(classified_df) = classified_df

\* both classifiers have run on a statement with a repeated line
C6_Witness ==
    /\ view.op = "classify_dataframe"
    /\ Len(view.df) < Len(corporate_df)
    /\ classified_df # None
    /\ Unedited

(***************************************************************************)
(* C7.  No row is counted in more than one revenue channel (wire, mobile,  *)
(* branch, e-transfer): the rows of any two channels are disjoint, also    *)
(* for a description that holds the keywords of two channels.              *)
(***************************************************************************)
PairwiseDisjoint(sets) ==
    \A a, b \in 1..Len(sets) : a # b => sets[a] \cap sets[b] = {}

C7_ChannelsDisjoint ==
    /\ view.op = "calculate_revenue" =>
        PairwiseDisjoint(<<view.rev.wire_df, view.rev.mobile_df, view.rev.branch_df>>)
    /\ view.op = "revenue_page" =>
        PairwiseDisjoint(<<view.rev.wire, view.rev.mobile, view.rev.branch,
                           view.rev.etransfer>>)
    /\ view.op = "export" =>
        PairwiseDisjoint(<<view.export.rev.wire, view.export.rev.mobile,
                           view.export.rev.branch, view.export.rev.etransfer>>)

(***************************************************************************)
(* C8.  The reported total revenue equals the sum of the reported          *)
(* per-channel totals.                                                     *)
(***************************************************************************)
C8_TotalIsSumOfChannels ==
    /\ view.op = "calculate_revenue" =>
        view.rev.total =
            view.rev.wire_total + view.rev.mobile_total + view.rev.branch_total
    /\ view.op = "revenue_page" =>
        view.rev.grand_total =
            view.rev.wire_total + view.rev.mobile_total + view.rev.branch_total
                + view.rev.etransfer_total + view.rev.other_total
    /\ view.op = "export" =>
        view.export.rev.grand_total =
            view.export.rev.wire_total + view.export.rev.mobile_total
                + view.export.rev.branch_total + view.export.rev.etransfer_total

(***************************************************************************)
(* C9.  Revenue extraction counts rows that agree on (date, credit,        *)
(* description) once: such rows give one row and one amount to their       *)
(* channel's count and total, whatever their other columns hold.           *)
(***************************************************************************)
RevenueKey(row) == <<row.date, row.credit, row.description>>

\* the count and the total of the rows of mask, one per key
CountOncePerKey(df, mask) == Cardinality({RevenueKey(df[i]) : i \in mask})

TotalOncePerKey(df, mask) ==
    SumOver(df, DropDuplicates(df, mask, RevenueKey), "credit")

WireRows(df) ==
    {i \in Rows(df) : df[i].credit > 0 /\ ContainsNoCase(df[i].description, "WIRE TSF")}

C9_DedupByDateCreditDescription ==
    /\ view.op = "calculate_revenue" =>
        /\ view.rev.wire_count = CountOncePerKey(view.df, WireRows(view.df))
        /\ view.rev.wire_total = TotalOncePerKey(view.df, WireRows(view.df))
    /\ view.op = "revenue_page" =>
        LET wire == {i \in WireRows(classified_df) :
                        classified_df[i].cra_category = "Revenue"}
        IN  view.rev.wire_total = TotalOncePerKey(classified_df, wire)

(***************************************************************************)
(* C10.  Every path that reports GST collected computes it from total      *)
(* revenue as total_revenue * 0.05/1.05 (revenue 10000 gives 476.19):      *)
(* calculate_period, the GST Filing page, the Revenue page and the         *)
(* accountant export.                                                      *)
(***************************************************************************)
InclusiveGst(revenue_cents) == round2(GstInPurchase(Amount(revenue_cents)))

C10_GstCollectedInclusive ==
    /\ view.op = "calculate_period" =>
        view.gst.gst_collected = GstInPurchase(view.gst.total_revenue)
            \/ view.gst.gst_collected = round2(GstInPurchase(view.gst.total_revenue))
    /\ view.op = "gst_filing_page" =>
        round2(view.gst.gst_collected) = InclusiveGst(view.gst.revenue)
    /\ view.op = "revenue_page" =>
        round2(view.rev.gst_collected) = InclusiveGst(view.rev.grand_total)
    /\ view.op = "export" =>
        round2(view.export.gst_collected) = InclusiveGst(view.export.rev.grand_total)

(***************************************************************************)
(* C11                                                                     *)
(***************************************************************************)
\* df with the itc_amount of every row flagged is_personal set to x
WithPersonalItc(df, x) ==
    [i \in Rows(df) |->
        IF "is_personal" \in DOMAIN df[i] /\ df[i].is_personal
        THEN [itc_amount |-> x] @@ df[i]
        ELSE df[i]]

PersonalRows(df) ==
    {i \in Rows(df) : "is_personal" \in DOMAIN df[i] /\ df[i].is_personal}

\* the amounts a personal row's itc_amount is changed to
ChangedItc == {0, Amount(100), Amount(500)}

\* C11: the ITC total of a GST period never includes the itc_amount of a row
\* flagged is_personal: whatever the itc_amount of the personal rows is changed
\* to, calculate_period returns the same total_itc and net_gst, and the GST
\* Filing page of app.py shows the total_itc and net_gst of the rows with the
\* personal rows' itc_amount taken out.
C11_PersonalItcExcluded ==
    /\ view.op = "calculate_period" =>
        \A x \in ChangedItc :
            LET changed == calculate_period(WithPersonalItc(view.df, x)) IN
            /\ changed.total_itc = view.gst.total_itc
            /\ changed.net_gst = view.gst.net_gst
    /\ view.op = "gst_filing_page" =>
        LET business == gst_filing_page(WithPersonalItc(classified_df, 0)) IN
        /\ business.total_itc = view.gst.total_itc
        /\ business.net_gst = view.gst.net_gst

\* the part of C11 that is about calculate_period alone
C11_CalculatePeriodExcludesPersonal ==
    view.op = "calculate_period" =>
        \A x \in ChangedItc :
            LET changed == calculate_period(WithPersonalItc(view.df, x)) IN
            /\ changed.total_itc = view.gst.total_itc
            /\ changed.net_gst = view.gst.net_gst

(***************************************************************************)
(* C12                                                                     *)
(***************************************************************************)
\* C12: in the summary calculate_period returns, total_itc is the sum of the
\* reported group subtotals and net_gst is the reported gst_collected minus
\* the reported total_itc.
C12_ReportedFiguresAddUp ==
    view.op = "calculate_period" =>
        /\ view.gst.total_itc = SeqSum(view.gst.groups)
        /\ view.gst.net_gst = view.gst.gst_collected - view.gst.total_itc

(***************************************************************************)
(* C13                                                                     *)
(***************************************************************************)
\* C13: the GST result is labelled owing exactly when net_gst > 0 and refund
\* exactly when net_gst < 0, and the summary the aggregator returns to its
\* callers carries that label beside the signed number.
C13_LabelledBySign ==
    /\ view.op = "gst_filing_page" =>
        /\ view.gst.line_109 = "NET GST OWING" <=> view.gst.net_gst > 0
        /\ view.gst.line_109 = "GST REFUND" <=> view.gst.net_gst < 0
    /\ view.op = "gst_working_papers" =>
        /\ view.papers.line = "NET GST OWING (Line 109)" <=> view.papers.net > 0
        /\ view.papers.line = "NET GST REFUND (Line 114)" <=> view.papers.net < 0
    /\ view.op = "calculate_period" =>
        /\ view.page.label = "NET GST OWING" <=> view.page.net_gst > 0
        /\ view.page.label = "NET GST REFUND" <=> view.page.net_gst < 0
        /\ DOMAIN view.gst \cap {"label", "status", "owing", "refund"} # {}

(***************************************************************************)
(* C14                                                                     *)
(***************************************************************************)
\* the quarters whose calculate_quarter keeps the row
QuartersOf(row, fiscal_year) ==
    {quarter \in 1..4 :
        LET dates == get_quarter_dates(fiscal_year, quarter) IN
        date_filter(<<row>>, dates[1], dates[2]) # <<>>}

\* Dec 1 of the previous year to Nov 30, as calendar days
InFiscalYear(row, fiscal_year) ==
    LET day == to_datetime_memo[row.date] IN
    /\ NotAfter(<<fiscal_year - 1, 12, 1>>, day)
    /\ NotAfter(day, <<fiscal_year, 11, 30>>)

\* C14: the period filter keeps both bounds and the four quarters partition
\* the fiscal year: a row dated within the fiscal year is kept by exactly one
\* quarter, a row outside it by none, and the quarters' revenue totals sum to
\* the revenue of calculate_period over the whole fiscal year.
C14_QuartersPartitionFiscalYear ==
    view.op \in {"calculate_quarter", "calculate_fiscal_year"} =>
        LET fiscal_year == view.fiscal_year
            df == classified_df
            whole == calculate_period_between(df,
                        ToString(fiscal_year - 1) \o "-12-01",
                        ToString(fiscal_year) \o "-11-30")
        IN  /\ \A i \in Rows(df) :
                Cardinality(QuartersOf(df[i], fiscal_year)) =
                    IF InFiscalYear(df[i], fiscal_year) THEN 1 ELSE 0
            /\ SeqSum([quarter \in 1..4 |->
                    calculate_quarter(df, fiscal_year, quarter).total_revenue])
                = whole.total_revenue
            /\ whole.total_revenue =
                    Amount(SumOver(df, {i \in Rows(df) :
                        /\ InFiscalYear(df[i], fiscal_year)
                        /\ df[i].cra_category \in TAXABLE_REVENUE_CATEGORIES}, "credit"))

\* the first quarter of a leap fiscal year was computed for a statement with
\* a receipt on Feb 29 and one on the day before the fiscal year
C14_Witness ==
    /\ view.op = "calculate_quarter"
    /\ view.fiscal_year = 2024
    /\ view.quarter = 1
    /\ view.gst.total_revenue > 0
    /\ \E i, j \in Rows(classified_df) :
        /\ classified_df[i].date = "2024-02-29"
        /\ classified_df[j].date = "2023-11-30"

(***************************************************************************)
(* C15                                                                     *)
(***************************************************************************)
\* amount * 0.05/1.05 * itc_fraction, the fraction 0.5 for a meals or
\* entertainment category and 1.0 otherwise
SideChannelItc(e) ==
    LET gst == GstInPurchase(Amount(e.amount)) IN
    IF ContainsNoCase(e.category, "Meal") \/ ContainsNoCase(e.category, "Entertainment")
    THEN gst \div 2
    ELSE gst

SideChannelTotal(expenses) ==
    SeqSum([i \in 1..Len(expenses) |-> SideChannelItc(expenses[i])])

\* C15: every side-channel ITC is amount * 0.05/1.05 * itc_fraction, the
\* fraction 0.5 for a meals/entertainment entry and 1.0 otherwise, on the GST
\* Filing page, on the two expense pages and in the accountant export.
C15_SideChannelItc ==
    /\ view.op = "gst_filing_page" =>
        /\ view.gst.cash_itc = SideChannelTotal(cash_expenses)
        /\ view.gst.personal_itc = SideChannelTotal(personal_expenses)
    /\ view.op = "cash_expenses_page" =>
        /\ \A i \in 1..Len(cash_expenses) :
            view.page.itc[i] = SideChannelItc(cash_expenses[i])
        /\ view.page.total_itc = SideChannelTotal(cash_expenses)
    /\ view.op = "personal_expenses_page" =>
        /\ \A i \in 1..Len(personal_expenses) :
            view.page.itc[i] = SideChannelItc(personal_expenses[i])
        /\ view.page.total_itc = SideChannelTotal(personal_expenses)
    /\ view.op = "export" =>
        /\ \A i \in 1..Len(cash_expenses) :
            view.cash.itc[i] = SideChannelItc(cash_expenses[i])
        /\ view.cash.cash_itc = SideChannelTotal(cash_expenses)

\* the pages of app.py do apply the meals fraction
C15_PagesUseMealsFraction ==
    /\ view.op = "gst_filing_page" =>
        /\ view.gst.cash_itc = SideChannelTotal(cash_expenses)
        /\ view.gst.personal_itc = SideChannelTotal(personal_expenses)
    /\ view.op = "cash_expenses_page" =>
        view.page.total_itc = SideChannelTotal(cash_expenses)
    /\ view.op = "personal_expenses_page" =>
        view.page.total_itc = SideChannelTotal(personal_expenses)

(***************************************************************************)
(* C16                                                                     *)
(***************************************************************************)
\* C16: in every year-end report, each shareholder's closing balance is the
\* reported opening balance minus the reported withdrawals minus the reported
\* personal expenses.
C16_ClosingBalanceIdentity ==
    view.op = "generate_year_end_report" =>
        \A who \in {view.report.greg, view.report.lilibeth} :
            who.closing_balance
                = who.opening_balance - who.withdrawals - who.personal_expenses

\* a report after an opening balance was set, a withdrawal processed and a
\* personal expense allocated
C16_Witness ==
    /\ view.op = "generate_year_end_report"
    /\ view.report.greg.opening_balance > 0
    /\ view.report.greg.withdrawals > 0
    /\ view.report.greg.personal_expenses > 0
    /\ view.report.lilibeth.personal_expenses > 0

(***************************************************************************)
(* C17                                                                     *)
(***************************************************************************)
Flagged(issues, name) == \E i \in 1..Len(issues) : issues[i].shareholder = name

\* the issue about one shareholder is there exactly when the balance is below
\* zero, and then owes the absolute balance
RiskMatches(issues, name, balance) ==
    /\ Flagged(issues, name) <=> balance < 0
    /\ \A i \in 1..Len(issues) :
        issues[i].shareholder = name =>
            /\ issues[i].amount_owing = 0 - balance
            /\ issues[i].amount_owing > 0

\* C17: check_taxable_benefit_risk has an entry for a shareholder, owing the
\* absolute balance, exactly when the shareholder's balance is below zero, and
\* generate_year_end_report gives the non-OK status for the same shareholders.
C17_FlaggedIffNegative ==
    /\ view.op = "check_taxable_benefit_risk" =>
        /\ RiskMatches(view.issues, "Greg Chicken", greg_balance(tracker))
        /\ RiskMatches(view.issues, "Lilibeth Sejera", lilibeth_balance(tracker))
        /\ Len(view.issues) <= 2
    /\ view.op = "generate_year_end_report" =>
        LET issues == check_taxable_benefit_risk(tracker) IN
        /\ view.report.greg.status # "OK"
            <=> view.report.greg.closing_balance < 0
        /\ view.report.lilibeth.status # "OK"
            <=> view.report.lilibeth.closing_balance < 0
        /\ view.report.greg.status # "OK" <=> Flagged(issues, "Greg Chicken")
        /\ view.report.lilibeth.status # "OK" <=> Flagged(issues, "Lilibeth Sejera")

\* the check of a tracker in which one shareholder owes and the other's
\* balance is exactly zero
C17_Witness ==
    /\ view.op = "check_taxable_benefit_risk"
    /\ greg_balance(tracker) < 0
    /\ lilibeth_balance(tracker) = 0
    /\ Len(view.issues) = 1

(***************************************************************************)
(* C18                                                                     *)
(***************************************************************************)
\* the date one year after an ISO date
one_year_after(date) ==
    ToString(Number(SubSeq(date, 1, 4)) + 1) \o SubSeq(date, 5, 10)

\* what a deadline text says of a fiscal year-end: the date itself, or the
\* month and day "of following year"
NamesOneYearAfter(deadline, fiscal_year_end) ==
    \/ deadline = one_year_after(fiscal_year_end)
    \/ /\ deadline = "November 30 of following year"
       /\ SubSeq(fiscal_year_end, 5, 10) = "-11-30"

\* C18: the repayment deadline surfaced for a flagged shareholder is the date
\* one year after the fiscal year-end the report was asked for.
C18_DeadlineOneYearAfterYearEnd ==
    view.op = "generate_year_end_report" =>
        LET issues == check_taxable_benefit_risk(tracker) IN
        \A i \in 1..Len(issues) :
            NamesOneYearAfter(issues[i].deadline, view.report.fiscal_year_end)

(***************************************************************************)
(* C19                                                                     *)
(***************************************************************************)
\* the ATM / ABM withdrawals of a frame, in cents
RECURSIVE AtmTotal(_)
AtmTotal(df) ==
    IF df = <<>> THEN 0
    ELSE (IF tracker_search_memo[Head(df).description].atm /\ Head(df).debit > 0
          THEN Head(df).debit ELSE 0) + AtmTotal(Tail(df))

\* the transfers of a frame that the shareholder's patterns find, in cents
RECURSIVE TransferTotal(_, _)
TransferTotal(df, shareholder) ==
    IF df = <<>> THEN 0
    ELSE (IF Head(df).debit > 0
             /\ IF shareholder = "Greg"
                THEN tracker_search_memo[Head(df).description].greg
                ELSE tracker_search_memo[Head(df).description].lilibeth
          THEN Head(df).debit ELSE 0) + TransferTotal(Tail(df), shareholder)

\* C19: process_transfers adds to each shareholder's withdrawals the ownership
\* share of every ATM / ABM withdrawal (and to the named shareholder the
\* transfers found), and records the ATM portions as review items.
C19_AtmSplitByOwnership ==
    [][view'.op = "process_transfers" =>
        LET df == view'.df
            mine(s) == IF view'.shareholder = s
                       THEN Money(TransferTotal(df, s)) ELSE 0
        IN  /\ tracker'.greg_withdrawals = tracker.greg_withdrawals
                    + mine("Greg") + AtmTotal(df) * GREG_PCT
            /\ tracker'.lilibeth_withdrawals = tracker.lilibeth_withdrawals
                    + mine("Lilibeth") + AtmTotal(df) * LILIBETH_PCT]_vars

\* what process_transfers does with an ATM withdrawal: the whole amount is a
\* withdrawal of Greg, with a review note
C19_AtmWholeToGreg ==
    [][view'.op = "process_transfers" =>
        LET df == view'.df
            mine(s) == IF view'.shareholder = s
                       THEN Money(TransferTotal(df, s)) ELSE 0
        IN  /\ tracker'.greg_withdrawals = tracker.greg_withdrawals
                    + mine("Greg") + Money(AtmTotal(df))
            /\ tracker'.lilibeth_withdrawals = tracker.lilibeth_withdrawals
                    + mine("Lilibeth")
            /\ \A i \in 1..Len(tracker'.greg_transactions) :
                tracker'.greg_transactions[i].type = "Cash Withdrawal (ATM)" =>
                    Contains(tracker'.greg_transactions[i].note, "Review")]_vars

(***************************************************************************)
(* C20                                                                     *)
(***************************************************************************)
\* the rows of a frame that process_personal_expenses allocates
AllocatedRows(df) ==
    SelectSeq(df, LAMBDA row :
        /\ row.debit # 0
        /\ \E p \in 1..Len(PERSONAL_EXPENSE_PATTERNS) :
            tracker_search_memo[row.description].personal[p])

DebitTotal(df) == SeqSum([i \in 1..Len(df) |-> df[i].debit])

\* the transactions appended to a list
Appended(before, after) == SubSeq(after, Len(before) + 1, Len(after))

\* C20: process_personal_expenses adds to the shareholders' personal expenses
\* 49% and 51% of each allocated debit, which together are the debit; every
\* portion recorded carries a verify note; a row is allocated once, however
\* many patterns find it.
C20_PersonalSplit ==
    [][view'.op = "process_personal_expenses" =>
        LET rows == AllocatedRows(view'.df)
            greg == Appended(tracker.greg_transactions, tracker'.greg_transactions)
            lili == Appended(tracker.lilibeth_transactions,
                             tracker'.lilibeth_transactions)
        IN  /\ tracker'.greg_personal - tracker.greg_personal
                    = DebitTotal(rows) * GREG_PCT
            /\ tracker'.lilibeth_personal - tracker.lilibeth_personal
                    = DebitTotal(rows) * LILIBETH_PCT
            /\ (tracker'.greg_personal - tracker.greg_personal)
                + (tracker'.lilibeth_personal - tracker.lilibeth_personal)
                    = Money(DebitTotal(rows))
            /\ Len(greg) = Len(rows)
            /\ Len(lili) = Len(rows)
            /\ \A i \in 1..Len(rows) :
                /\ greg[i].amount = rows[i].debit * GREG_PCT
                /\ lili[i].amount = rows[i].debit * LILIBETH_PCT
                /\ greg[i].amount + lili[i].amount = Money(rows[i].debit)
                /\ Contains(greg[i].note, "verify")
                /\ Contains(lili[i].note, "verify")
                /\ greg[i].description = rows[i].description
                /\ lili[i].description = rows[i].description]_vars

\* an expense that two patterns find (IKEA, RESTAURANT) has been allocated
C20_Witness ==
    /\ view.op = "process_personal_expenses"
    /\ \E i \in 1..Len(view.df) :
        /\ view.df[i].debit > 0
        /\ Cardinality({p \in 1..Len(PERSONAL_EXPENSE_PATTERNS) :
                tracker_search_memo[view.df[i].description].personal[p]}) > 1
    /\ tracker.greg_personal > 0
    /\ tracker.lilibeth_personal > tracker.greg_personal

(***************************************************************************)
(* C21                                                                     *)
(***************************************************************************)
\* shares that are not negative and sum to 100%
SharesValid(shares) ==
    /\ \A s \in DOMAIN shares : shares[s] >= 0
    /\ SeqSum([i \in 1..Len(shares) |-> shares[i]]) = 100

\* C21: the tracker is constructed from ownership percentages that were
\* validated (not negative, summing to 100%) before any balance is computed:
\* whenever an allocation, a report or a risk check has run, the tracker holds
\* the shares its constructor has checked.
C21_SharesValidatedAtConstruction ==
    view.op \in {"process_personal_expenses", "generate_year_end_report",
                 "check_taxable_benefit_risk"} =>
        /\ "ownership_shares" \in DOMAIN tracker
        /\ SharesValid(tracker.ownership_shares)

(***************************************************************************)
(* C25                                                                     *)
(***************************************************************************)
\* the shareholder whose list a step appended a dividend to
DividendOf(before, after) ==
    IF Len(after.greg_transactions) > Len(before.greg_transactions)
    THEN "Greg" ELSE "Lilibeth"

\* C25: record_dividend changes the shareholder's loan balance by the
\* dividend amount and leaves the other shareholder's balance and
\* transactions as they were.
C25_DividendReducesLoan ==
    [][view'.op = "record_dividend" =>
        LET who == DividendOf(tracker, tracker') IN
        IF who = "Greg"
        THEN /\ greg_balance(tracker) - greg_balance(tracker') = DividendAmount
             /\ lilibeth_balance(tracker') = lilibeth_balance(tracker)
             /\ tracker'.lilibeth_transactions = tracker.lilibeth_transactions
        ELSE /\ lilibeth_balance(tracker) - lilibeth_balance(tracker') = DividendAmount
             /\ greg_balance(tracker') = greg_balance(tracker)
             /\ tracker'.greg_transactions = tracker.greg_transactions]_vars

\* what record_dividend does: one transaction more for the shareholder, and
\* no balance changed
C25_DividendOnlyRecorded ==
    [][view'.op = "record_dividend" =>
        /\ greg_balance(tracker') = greg_balance(tracker)
        /\ lilibeth_balance(tracker') = lilibeth_balance(tracker)
        /\ TxnCount(tracker') = TxnCount(tracker) + 1]_vars

(***************************************************************************)
(* C27                                                                     *)
(***************************************************************************)
\* the debits of the rows of a frame that are a transfer to a shareholder or
\* an ATM / ABM withdrawal, each row once, in cents
RECURSIVE MatchingDebits(_)
MatchingDebits(df) ==
    IF df = <<>> THEN 0
    ELSE LET m == tracker_search_memo[Head(df).description] IN
         (IF Head(df).debit > 0 /\ (m.greg \/ m.lilibeth \/ m.atm)
          THEN Head(df).debit ELSE 0) + MatchingDebits(Tail(df))

OtherShareholder(s) == IF s = "Greg" THEN "Lilibeth" ELSE "Greg"

\* C27: process_transfers run for one shareholder and then for the other on
\* the same frame adds to the two withdrawal totals, together, the debits of
\* the matching rows, each once.
C27_EachDebitCountedOnce ==
    [][view'.op = "process_transfers" =>
        LET df == view'.df
            both == process_transfers(tracker', df, OtherShareholder(view'.shareholder))
        IN  (both.greg_withdrawals + both.lilibeth_withdrawals)
                - (tracker.greg_withdrawals + tracker.lilibeth_withdrawals)
            = Money(MatchingDebits(df))]_vars

\* without ATM / ABM withdrawals in the frame, each debit is counted once
C27_TransfersCountedOnce ==
    [][view'.op = "process_transfers" /\ AtmTotal(view'.df) = 0 =>
        LET df == view'.df
            both == process_transfers(tracker', df, OtherShareholder(view'.shareholder))
        IN  (both.greg_withdrawals + both.lilibeth_withdrawals)
                - (tracker.greg_withdrawals + tracker.lilibeth_withdrawals)
            = Money(MatchingDebits(df))]_vars

(***************************************************************************)
(* C22                                                                     *)
(***************************************************************************)
\* neither debit nor credit, or a negative amount
Malformed(row) ==
    \/ row.debit = 0 /\ row.credit = 0
    \/ row.debit < 0
    \/ row.credit < 0

\* a row that was given a category
Categorized(row) ==
    /\ "cra_category" \in DOMAIN row
    /\ row.cra_category \notin {"", None}

\* C22: classification gives a malformed row (debit and credit both zero, or a
\* negative amount) no category, and gives every valid row of the same batch
\* one.
C22_MalformedRefused ==
    /\ view.op = "classify_dataframe" =>
        \A i \in Rows(view.df) :
            IF Malformed(view.df[i]) THEN ~Categorized(view.df[i])
            ELSE Categorized(view.df[i])
    /\ classified_df # None =>
        \A i \in Rows(classified_df) :
            IF Malformed(classified_df[i]) THEN ~Categorized(classified_df[i])
            ELSE Categorized(classified_df[i])

\* every row, malformed or not, is given a category
C22_EveryRowCategorized ==
    /\ view.op = "classify_dataframe" =>
        \A i \in Rows(view.df) : Categorized(view.df[i])
    /\ classified_df # None =>
        \A i \in Rows(classified_df) : Categorized(classified_df[i])

(***************************************************************************)
(* C23                                                                     *)
(***************************************************************************)
BothNonzero(row) == row.debit # 0 /\ row.credit # 0

\* C23: a row with both debit and credit nonzero has the category and the ITC
\* of the row with the same description and debit and no credit.
C23_BothNonzeroIsDebit ==
    /\ view.op = "classify_dataframe" =>
        \A i \in Rows(view.df) :
            BothNonzero(view.df[i]) =>
                LET row == view.df[i]
                    as_debit == TransactionClassifier_classify_transaction(
                                    row.description, row.debit, 0)
                IN  /\ row.cra_category = as_debit.cra_category
                    /\ row.itc_amount = as_debit.itc_amount
    /\ classified_df # None =>
        \A i \in Rows(classified_df) :
            BothNonzero(classified_df[i]) =>
                LET row == classified_df[i]
                    as_debit == classify_row(Line(row.date, row.description, row.debit, 0))
                IN  /\ row.cra_category = as_debit.cra_category
                    /\ row.itc_amount = as_debit.itc_amount

\* the classification of app.py does treat such a row as a debit
C23_AppBothNonzeroIsDebit ==
    classified_df # None =>
        \A i \in Rows(classified_df) :
            BothNonzero(classified_df[i]) =>
                LET row == classified_df[i]
                    as_debit == classify_row(Line(row.date, row.description, row.debit, 0))
                IN  /\ row.cra_category = as_debit.cra_category
                    /\ row.itc_amount = as_debit.itc_amount

(***************************************************************************)
(* C24                                                                     *)
(***************************************************************************)
DebitRows(df) == {i \in Rows(df) : df[i].debit > 0}

\* the personal debit rows of a frame; the rows of app.py carry no
\* is_personal column
PersonalDebitRows(df) ==
    {i \in DebitRows(df) : "is_personal" \in DOMAIN df[i] /\ df[i].is_personal}

RECURSIVE SumCounts(_, _)
SumCounts(breakdown, cats) ==
    IF cats = {} THEN 0
    ELSE LET c == CHOOSE x \in cats : TRUE
         IN  breakdown[c].count + SumCounts(breakdown, cats \ {c})

\* C24: in every category breakdown, the category totals of the non-personal
\* rows plus the personal total are the sum of the debits of all debit rows:
\* no debit row is left out or counted twice.
C24_ExpenseConservation ==
    /\ view.op = "generate_expense_schedule" =>
        /\ SumTotals(view.schedule, DOMAIN view.schedule)
                + SumOver(view.df, PersonalDebitRows(view.df), "debit")
            = SumOver(view.df, DebitRows(view.df), "debit")
        /\ SumCounts(view.schedule, DOMAIN view.schedule)
                + Cardinality(PersonalDebitRows(view.df))
            = Cardinality(DebitRows(view.df))
    /\ view.op = "generate_income_statement" =>
        view.statement.total_expenses
                + SumOver(view.df, PersonalDebitRows(view.df), "debit")
            = SumOver(view.df, DebitRows(view.df), "debit")
    /\ view.op = "export" =>
        /\ view.split.total_exp = SumOver(classified_df, DebitRows(classified_df), "debit")
        /\ SumCounts(view.split.exp, DOMAIN view.split.exp)
            = Cardinality(DebitRows(classified_df))

\* the expense schedule and the export do conserve
C24_SchedulesConserve ==
    /\ view.op = "generate_expense_schedule" =>
        SumTotals(view.schedule, DOMAIN view.schedule)
                + SumOver(view.df, PersonalDebitRows(view.df), "debit")
            = SumOver(view.df, DebitRows(view.df), "debit")
    /\ view.op = "export" =>
        view.split.total_exp = SumOver(classified_df, DebitRows(classified_df), "debit")

(***************************************************************************)
(* C26                                                                     *)
(***************************************************************************)
\* C26: batch classification returns one row for every row of the statement,
\* in the statement's order, with date, description, debit and credit as they
\* were, and each row classified from its own description, debit and credit.
C26_OneRowPerTransaction ==
    /\ view.op = "classify_dataframe" =>
        /\ Len(view.df) = Len(corporate_df)
        /\ \A i \in Rows(view.df) :
            i \in Rows(corporate_df) =>
                view.df[i] =
                    TransactionClassifier_classify_transaction(corporate_df[i].description,
                        corporate_df[i].debit, corporate_df[i].credit) @@ corporate_df[i]
    /\ classified_df # None =>
        /\ Len(classified_df) = Len(corporate_df)
        /\ \A i \in Rows(classified_df) :
            classified_df[i] = classify_row(corporate_df[i])

\* the rows that differ from every earlier row are all there, in order, each
\* classified from its own fields
C26_DistinctRowsKept ==
    view.op = "classify_dataframe" =>
        LET first == {i \in Rows(corporate_df) :
                        \A j \in 1..(i - 1) : corporate_df[j] # corporate_df[i]}
        IN  /\ Len(view.df) = Cardinality(first)
            /\ \A i \in Rows(view.df) :
                \E j \in first :
                    /\ Cardinality({k \in first : k <= j}) = i
                    /\ view.df[i] =
                        TransactionClassifier_classify_transaction(
                            corporate_df[j].description, corporate_df[j].debit,
                            corporate_df[j].credit) @@ corporate_df[j]

(***************************************************************************)
(* C28                                                                     *)
(***************************************************************************)
\* C28: every computation applies the same share to Greg and the same share
\* to Lilibeth -- the shares of the personal-expense allocation -- and the two
\* shares sum to 100%.
C28_OneOwnershipShare ==
    /\ GREG_PCT + LILIBETH_PCT = 100
    /\ view.op = "declare_dividend" =>
        /\ view.dividend.greg_amount = view.dividend.total_amount * GREG_PCT
        /\ view.dividend.lilibeth_amount = view.dividend.total_amount * LILIBETH_PCT
    /\ view.op = "generate_t5" =>
        /\ view.t5[1].actual_dividend = view.total_dividends * GREG_PCT
        /\ view.t5[2].actual_dividend = view.total_dividends * LILIBETH_PCT
    /\ view.op = "shareholders_page" =>
        /\ view.page.greg_share = view.page.net_income * GREG_PCT
        /\ view.page.lili_share = view.page.net_income * LILIBETH_PCT
    /\ view.op = "export" =>
        /\ view.split.greg = view.split.net_income * GREG_PCT
        /\ view.split.lilibeth = view.split.net_income * LILIBETH_PCT

\* the tracker's allocation and the dividend declaration agree with each other
C28_TrackerSharesAgree ==
    /\ GREG_PCT + LILIBETH_PCT = 100
    /\ view.op = "declare_dividend" =>
        /\ view.dividend.greg_amount = view.dividend.total_amount * GREG_PCT
        /\ view.dividend.lilibeth_amount = view.dividend.total_amount * LILIBETH_PCT

(***************************************************************************)
(* C29                                                                     *)
(***************************************************************************)
\* C29: the revenue of the GST Filing, Shareholders and Summary pages is the
\* total revenue of the Revenue page for the same classified rows.
C29_RevenueAgrees ==
    /\ view.op = "gst_filing_page" =>
        view.gst.revenue = revenue_page(classified_df).grand_total
    /\ view.op = "shareholders_page" =>
        view.page.revenue = revenue_page(classified_df).grand_total
    /\ view.op = "summary_page" =>
        view.page.revenue = revenue_page(classified_df).grand_total

(***************************************************************************)
(* C30                                                                     *)
(***************************************************************************)
\* the ITC groups a category is listed in
GroupsOf(c) == {g \in 1..Len(ITC_GROUPS) : c \in ITC_GROUPS[g].categories}

\* the rows of a frame that are not personal
NonPersonalRows(df) == {i \in Rows(df) : df[i].is_personal = FALSE}

\* C30: every category the classifier marks itc_eligible is in exactly one
\* ITC group and in no NO_ITC_CATEGORIES entry, and the groups list no other
\* category; so for every output of classify_dataframe the total_itc of
\* calculate_period is the sum of itc_amount over the rows that are not
\* personal.
C30_ItcGroupsCoverEligible ==
    /\ \A c \in DOMAIN CATEGORIES :
        /\ CATEGORIES[c].itc_eligible =>
                Cardinality(GroupsOf(c)) = 1 /\ c \notin NO_ITC_CATEGORIES
        /\ GroupsOf(c) # {} => CATEGORIES[c].itc_eligible
    /\ view.op = "calculate_period" =>
        view.gst.total_itc = SumOver(view.df, NonPersonalRows(view.df), "itc_amount")

\* a GST summary of a statement with a fuel purchase that earns a credit,
\* next to a personal purchase
C30_Witness ==
    /\ view.op = "calculate_period"
    /\ view.gst.total_itc > 0
    /\ \E i \in Rows(view.df) :
        /\ view.df[i].cra_category = "Fuel & Petroleum"
        /\ view.df[i].itc_amount > 0
    /\ \E i \in Rows(view.df) : view.df[i].is_personal = TRUE

====
